---- MODULE Spec2Model ----
(***************************************************************************)
(* Asynchronous job polling in the Harmony helper scripts, the cleanup     *)
(* script and the example service adapter.                                 *)
(*                                                                         *)
(* Three functions poll a job status URL until the job is terminal:        *)
(*   show_async, show_async_condensed   src/docs/notebook_helpers          *)
(*   wait_for_job_completion            src/workload/harmony/common.py     *)
(* The two notebook functions also show the data links of the job as they  *)
(* arrive.  One behaviour of this module is one call of one of them; the   *)
(* status documents the server answers with are the inputs.                *)
(*                                                                         *)
(* A status document is a record [status, progress, links]; a link is a    *)
(* record with an "href" and optionally a "rel" and a "title" (a Python    *)
(* dict in which a key may be missing).  An href is a sequence of          *)
(* characters, so that startswith('http') is computed, not assumed.        *)
(* A response is [id, content]: id numbers the fetch that produced it      *)
(* (0 is the response handed to the call) and content is <<document>>.     *)
(*                                                                         *)
(* The requests a call makes besides the status fetch, get(link) for a     *)
(* data link and show of its response, are taken to return: `dispatched`   *)
(* records the hrefs handed to them.  The catalog that check_stac opens is *)
(* an input of the last step.                                              *)
(*                                                                         *)
(* Specifications:                                                         *)
(*   Spec             one poll call on well-formed documents               *)
(*   SpecMalformed    one poll call, documents may lack status or links    *)
(*   SpecLive         one poll call on a job that ends, fair steps         *)
(*   SpecSessions     two show_async calls interleaved                     *)
(*   SpecOnStart      the load test users in on_start (SpecOnStartFair     *)
(*                    with fair scheduling)                                *)
(*   SpecCleanup      one run of scripts/cleanup_old_services.py           *)
(*   SpecTask         a load test task calling wait_for_job_completion     *)
(*   SpecAdapter      one call of ExampleAdapter.process_item              *)
(* Each leaves the variables of the other parts at rest.                   *)
(***************************************************************************)
EXTENDS Naturals, Sequences, FiniteSets

\* ------------------------------------------------------------------ bounds
\* Most links a status document carries.
MaxLinks == 3
\* Most status fetches of one call.
MaxFetches == 2

\* --------------------------------------------------------------- documents
HTTP == <<"h", "t", "t", "p">>

\* The links a server may append: a data link, a link with neither "rel" nor
\* "title", a data link that is no http URL, a non-data link and the STAC
\* catalog link.
LinkPool ==
  { [href |-> HTTP \o <<"a">>, rel |-> "data", title |-> "x"],
    [href |-> HTTP \o <<"b">>],
    [href |-> <<"s", "3", "c">>, rel |-> "data", title |-> "x"],
    [href |-> HTTP \o <<"j">>, rel |-> "self", title |-> "Job Status"],
    [href |-> HTTP \o <<"k">>, rel |-> "stac-catalog-json", title |-> "STAC catalog"] }

\* The progress values a server may report.
Progresses == {0, 50}

Statuses == {"accepted", "running", "successful", "failed", "canceled"}

LinkSeqs(n) == UNION { [1..k -> LinkPool] : k \in 0..n }

\* Every document the call can be handed.
InitialDocs ==
  [status : Statuses, progress : Progresses, links : LinkSeqs(MaxLinks)]

\* What the server answers next, given the document it answered last: any
\* status and progress, and the same links with zero or more appended.
NextDocs(prev) ==
  { [status |-> s, progress |-> p, links |-> prev.links \o ext] :
      s \in Statuses, p \in Progresses,
      ext \in LinkSeqs(MaxLinks - Len(prev.links)) }

\* The same documents over two links only, a data link and the STAC catalog
\* link, for the specifications in which other things vary.
FewLinks ==
  { l \in LinkPool : ("title" \in DOMAIN l /\ l.title = "STAC catalog") \/ l.href = HTTP \o <<"a">> }

FewLinkSeqs(n) == UNION { [1..k -> FewLinks] : k \in 0..n }

FewInitialDocs ==
  [status : Statuses, progress : Progresses, links : FewLinkSeqs(MaxLinks)]

FewNextDocs(prev) ==
  { [status |-> s, progress |-> p, links |-> prev.links \o ext] :
      s \in Statuses, p \in Progresses,
      ext \in FewLinkSeqs(MaxLinks - Len(prev.links)) }

\* ------------------------------------------------------------ pure helpers
None == <<>>

\* response.json()
json(response) == response.content[1]

\* A response whose body is not JSON: response.json() raises on it, there is
\* no document to read.
undecodable(id) == [id |-> id, content |-> <<>>]

\* response.json() succeeds.
decodes(response) == response.content # <<>>

\* dict.get(key, default)
get(link, key, default) == IF key \in DOMAIN link THEN link[key] ELSE default

\* str.startswith(prefix)
startswith(s, prefix) ==
  Len(s) >= Len(prefix) /\ SubSeq(s, 1, Len(prefix)) = prefix

\* seq[slice(start, None)] for start >= 0
slice(s, start) == SubSeq(s, start + 1, Len(s))

\* Mutant: no filter on "rel".
get_data_urls_unfiltered(response) ==
  [i \in 1..Len(json(response).links) |-> json(response).links[i].href]

get_data_urls(response) ==
  LET data == SelectSeq(json(response).links,
                        LAMBDA link : get(link, "rel", "data") = "data")
  IN  [i \in 1..Len(data) |-> data[i].href]

\* Mutant: every call shows all data links again.
show_response_noslice(response, link_count) ==
  LET links == get_data_urls(response)
  IN  [shown |-> SelectSeq(links, LAMBDA link : startswith(link, HTTP)),
       count |-> Len(links)]

\* Mutant: the new links are shown newest first.
show_response_reversed(response, link_count) ==
  LET links == get_data_urls(response)
      new_links == slice(links, link_count)
      rev == [i \in 1..Len(new_links) |-> new_links[Len(new_links) + 1 - i]]
  IN  [shown |-> SelectSeq(rev, LAMBDA link : startswith(link, HTTP)),
       count |-> Len(links)]

\* Mutant: the offset is a raw index into links, the filter comes after.
show_response_rawindex(response, link_count) ==
  LET raw == slice(json(response).links, link_count)
      data == SelectSeq(raw, LAMBDA link : get(link, "rel", "data") = "data")
      new_links == [i \in 1..Len(data) |-> data[i].href]
  IN  [shown |-> SelectSeq(new_links, LAMBDA link : startswith(link, HTTP)),
       count |-> Len(json(response).links)]

\* Mutant: the value returned is the number of new links.
show_response_newcount(response, link_count) ==
  LET links == get_data_urls(response)
      new_links == slice(links, link_count)
  IN  [shown |-> SelectSeq(new_links, LAMBDA link : startswith(link, HTTP)),
       count |-> Len(new_links)]

\* Mutant: the value returned counts the links shown only.
show_response_showncount(response, link_count) ==
  LET links == get_data_urls(response)
      new_links == slice(links, link_count)
      shown == SelectSeq(new_links, LAMBDA link : startswith(link, HTTP))
  IN  [shown |-> shown, count |-> link_count + Len(shown)]

\* show_response of show_async: the hrefs it shows, in order, and the value
\* it returns.
show_response(response, link_count) ==
  LET links == get_data_urls(response)
      new_links == slice(links, link_count)
  IN  [shown |-> SelectSeq(new_links, LAMBDA link : startswith(link, HTTP)),
       count |-> Len(links)]

\* show_response_condensed of show_async_condensed.
show_response_condensed(response, link_count) ==
  LET links == get_data_urls(response)
      new_links == slice(links, link_count)
  IN  [shown |-> SelectSeq(new_links, LAMBDA link : startswith(link, HTTP)),
       count |-> Len(links)]

OK == 200

\* Mutant: every status code passes.
check_status_any(code) == TRUE

check_status(code) == code = OK

\* What becomes of the catalog check_stac opens: it opens and its items
\* pass the assertions (an empty catalog does), the library raises in
\* Catalog.open or while it reads the items, or an item fails an assertion.
Catalogs == {"ok", "raises", "bad item"}

\* check_stac: "ok" or the exception it raises.  Lines 358-360 read the
\* title of every link and the href of those titled 'STAC catalog', the last
\* of which is kept; line 362 asserts that it is not empty; line 363 opens
\* the catalog and lines 365-369 check its items.
check_stac(response, catalog) ==
  LET links == json(response).links
      stac == { i \in 1..Len(links) : get(links[i], "title", None) = "STAC catalog" }
      stac_url == links[CHOOSE i \in stac : \A j \in stac : j <= i].href
  IN  IF \E i \in 1..Len(links) : "title" \notin DOMAIN links[i]
        THEN "KeyError"
      ELSE IF \E i \in stac : "href" \notin DOMAIN links[i]
        THEN "KeyError"
      ELSE IF stac = {} THEN "UnboundLocalError"
      ELSE IF stac_url = <<>> THEN "AssertionError"
      ELSE IF catalog = "raises" THEN "CatalogError"
      ELSE IF catalog = "bad item" THEN "AssertionError"
      ELSE "ok"

\* ------------------------------------------------------------------- state
VARIABLES
  task,                    \* the load test task that makes the call, or "none"
  call,                    \* the function called
  show_results,            \* show_async_condensed's argument
  status_code,             \* status code of the response handed to the call
  response,                \* the local `response`
  missing,                 \* the keys the last document handed or fetched lacks
  displayed_link_count,    \* the local `displayed_link_count`
  waiting_message_printed, \* the local `waiting_message_printed`
  status,                  \* wait_for_job_completion's local `status`
  pc,                      \* "start", "loop" or "done"
  dispatched,              \* hrefs given to show(get(link)), in order
  extractions,             \* calls of get_data_urls that returned
  fetches,                 \* status fetches
  sleeps,                  \* calls of sleep(1)
  outcome,                 \* "none", "returned" or the exception raised
  returned,                \* <<value>> once returned, None otherwise
  printed_complete,        \* 'Async request is complete' was printed
  stac_checked,            \* check_stac was called
  events                   \* the exception fields of the fired request events

\* Several show_async calls side by side.
VARIABLES
  s_pc,                    \* per call: where it is, see SessionPcs
  s_response,              \* per call: the document of its `response`
  s_new_links,             \* per call: what is left of show_response's
                           \* `new_links`
  s_links_len,             \* per call: len(links) in show_response
  s_dispatched,            \* per call: hrefs given to show(get(link))
  s_restarted,             \* per call: "no", or where the call before it
                           \* was when it was interrupted
  s_outcome,               \* per call: "none", "returned" or the exception
  s_returned,              \* per call: <<value>> once returned, else None
  link_counts              \* per storage cell: a `displayed_link_count`

\* The users of a load test in on_start.
VARIABLES
  mutex,                   \* the module's Lock: "free" or the user holding it
  session_cookies,         \* the module's session_cookies: None or <<jar>>
  u_pc,                    \* per user: the line on_start is at
  client_cookies,          \* per user: self.client.cookies, a jar
  setup_requests,          \* the users that sent the set-up request, in order
  u_raised                 \* the users whose set-up request raised

\* One run of cleanup_old_services.py.
VARIABLES
  c_pc,                    \* "env", "gather", "approve" or "exit"
  c_args,                  \* command line and environment
  cluster,                 \* what the cluster, database and bucket held
  all_images,              \* the script's all_images
  image_to_deployment_name,\* the script's dictionary of that name
  removable,               \* the script's removable_images (the list)
  user_input,              \* None, or <<text>> once the prompt was answered
  commands,                \* what the script ran or read, in order
  exit_code                \* None, or the exit status and the exception
                           \* that ended the script ("None" if none did)

\* One call of ExampleAdapter.process_item.
VARIABLES
  a_pc,                    \* the step process_item is at
  a_in,                    \* the item and the file system the call found, and
                           \* what the item's clone() returns
  objects,                 \* the pystac items that exist, by reference
  item,                    \* the argument `item`, a reference
  result,                  \* the local `result`, a reference or None
  workdir,                 \* the local `workdir`: None or <<name>>
  fs,                      \* the paths that exist
  a_exc                    \* the exception raised in the try block, or "None"

poll_vars ==
  << task, call, show_results, status_code, response, missing,
     displayed_link_count, waiting_message_printed, status, pc, dispatched,
     extractions, fetches, sleeps, outcome, returned, printed_complete,
     stac_checked, events >>

session_vars ==
  << s_pc, s_response, s_new_links, s_links_len, s_dispatched, s_restarted,
     s_outcome, s_returned, link_counts >>

user_vars ==
  << mutex, session_cookies, u_pc, client_cookies, setup_requests, u_raised >>

cleanup_vars ==
  << c_pc, c_args, cluster, all_images, image_to_deployment_name, removable,
     user_input, commands, exit_code >>

adapter_vars ==
  << a_pc, a_in, objects, item, result, workdir, fs, a_exc >>

vars == << poll_vars, session_vars, user_vars, cleanup_vars, adapter_vars >>

body == json(response)

Notebook == {"show_async", "show_async_condensed"}

\* Mutant: a canceled job counts as a success.
FailedStatusesWait_nocancel == {"failed"}

\* The lists of the loop conditions and of the assertions after the loops.
\* Mutant: "canceled" does not end the loop.
TerminalStatuses_nocancel == {"successful", "failed"}
TerminalStatuses == {"successful", "failed", "canceled"}
TerminalStatusesCondensed == {"successful", "failed", "canceled"}
TerminalStatusesWait == {"successful", "failed", "canceled"}
\* Mutant: the assertion after the loop lets every status through.
FailedStatuses_none == {}
FailedStatuses == {"failed"}
FailedStatusesCondensed == {"failed"}
FailedStatusesWait == {"failed", "canceled"}

\* The test that decides whether an iteration shows the new document.
\* Mutant: every iteration shows the new document.
changed_always(progress, status_, body_) == TRUE

changed(progress, status_, body_) ==
  progress # body_.progress \/ status_ # body_.status

\* Mutant: a change of status alone does not count.
changed_progress_only(progress, status_, body_) ==
  progress # body_.progress

changed_condensed(progress, status_, body_) ==
  progress # body_.progress \/ status_ # body_.status

\* What the calls return at their last line.
\* Mutant: the return statement is missing.
show_async_result_missing(response_) == None
show_async_result(response_) == <<response_>>
show_async_condensed_result(response_) == None

\* The keys a malformed status document may lack.
Gaps == SUBSET {"status", "links"}

\* Mutant: a missing key reads as a value instead of raising.
key_error_never(gaps, key) == FALSE

\* document[key] raises KeyError.
key_error(gaps, key) == key \in gaps

\* The statuses after which a job does not change any more.
ServerTerminal == {"successful", "failed", "canceled"}

\* What a server that ends its jobs answers: as NextDocs, but the last fetch
\* the bound allows finds the job ended.
DeadlineDocs ==
  IF fetches + 1 >= MaxFetches
    THEN { d \in FewNextDocs(body) : d.status \in ServerTerminal }
    ELSE FewNextDocs(body)

\* ------------------------------------------------------- the parts at rest
\* A specification runs one part of the repository; the others stay as here.
SomeDoc == [status |-> "successful", progress |-> 0, links |-> <<>>]

PollIdle ==
  /\ task = "none"
  /\ call = "none"
  /\ show_results = TRUE
  /\ status_code = OK
  /\ response = [id |-> 0, content |-> <<SomeDoc>>]
  /\ missing = {}
  /\ displayed_link_count = 0
  /\ waiting_message_printed = FALSE
  /\ status = None
  /\ pc = "idle"
  /\ dispatched = <<>>
  /\ extractions = 0
  /\ fetches = 0
  /\ sleeps = 0
  /\ outcome = "none"
  /\ returned = None
  /\ printed_complete = FALSE
  /\ stac_checked = FALSE
  /\ events = <<>>

SessionsIdle ==
  /\ s_pc = <<>>
  /\ s_response = <<>>
  /\ s_new_links = <<>>
  /\ s_links_len = <<>>
  /\ s_dispatched = <<>>
  /\ s_restarted = <<>>
  /\ s_outcome = <<>>
  /\ s_returned = <<>>
  /\ link_counts = <<>>

UsersIdle ==
  /\ mutex = "free"
  /\ session_cookies = None
  /\ u_pc = <<>>
  /\ client_cookies = <<>>
  /\ setup_requests = <<>>
  /\ u_raised = {}

AdapterIdle ==
  /\ a_pc = "idle"
  /\ a_in = <<>>
  /\ objects = <<>>
  /\ item = "none"
  /\ result = None
  /\ workdir = None
  /\ fs = {}
  /\ a_exc = "None"

CleanupIdle ==
  /\ c_pc = "idle"
  /\ c_args = <<>>
  /\ cluster = <<>>
  /\ all_images = <<>>
  /\ image_to_deployment_name = <<>>
  /\ removable = <<>>
  /\ user_input = None
  /\ commands = <<>>
  /\ exit_code = None

\* ------------------------------------------------------------ poll calls
PollInit(docs, gapsets) ==
  /\ task = "none"
  /\ call \in Notebook \cup {"wait_for_job_completion"}
  /\ show_results \in (IF call = "show_async_condensed" THEN BOOLEAN ELSE {TRUE})
  /\ status_code \in (IF call \in Notebook THEN {OK, 500} ELSE {OK})
  /\ \E d \in docs : response = [id |-> 0, content |-> <<d>>]
  /\ missing \in gapsets
  /\ displayed_link_count = 0
  /\ waiting_message_printed = FALSE
  /\ status = None
  /\ pc = "start"
  /\ dispatched = <<>>
  /\ extractions = 0
  /\ fetches = 0
  /\ sleeps = 0
  /\ outcome = "none"
  /\ returned = None
  /\ printed_complete = FALSE
  /\ stac_checked = FALSE
  /\ events = <<>>

Init ==
  /\ PollInit(InitialDocs, {{}})
  /\ SessionsIdle /\ UsersIdle /\ CleanupIdle /\ AdapterIdle

\* An exception leaves the call.
Raise(exc) ==
  /\ pc' = "done"
  /\ outcome' = exc

\* The call goes on.
GoOn == UNCHANGED << pc, outcome >>

\* ------------------------------------------------------------- show_async
\* Lines 230-234: check_status, then the first show_response.
ShowAsyncStart ==
  /\ pc = "start" /\ call = "show_async"
  /\ IF ~check_status(status_code)
       THEN /\ Raise("AssertionError")
            /\ UNCHANGED << displayed_link_count, dispatched, extractions >>
       ELSE IF key_error(missing, "links")
       THEN /\ Raise("KeyError")
            /\ UNCHANGED << displayed_link_count, dispatched, extractions >>
       ELSE LET r == show_response(response, 0)
            IN  /\ displayed_link_count' = r.count
                /\ dispatched' = dispatched \o r.shown
                /\ extractions' = extractions + 1
                /\ pc' = "loop"
                /\ outcome' = outcome
  /\ waiting_message_printed' = FALSE
  /\ UNCHANGED << task, call, show_results, status_code, response, missing, status,
                  fetches, sleeps, returned, printed_complete, stac_checked,
                  events >>
  /\ UNCHANGED << session_vars, user_vars, cleanup_vars, adapter_vars >>

\* Lines 235-246: one iteration of the loop; the fetch answers a document of
\* `docs` that lacks the keys of one of `gapsets`.
ShowAsyncPollFrom(docs, gapsets) ==
  /\ pc = "loop" /\ call = "show_async"
  /\ ~key_error(missing, "status")
  /\ body.status \notin TerminalStatuses
  /\ fetches < MaxFetches
  /\ \E d \in docs, g \in gapsets :
       LET progress == body.progress
           status_ == body.status
           fetched == [id |-> fetches + 1, content |-> <<d>>]
           r == show_response(fetched, displayed_link_count)
       IN  /\ response' = fetched
           /\ missing' = g
           /\ IF progress = d.progress /\ key_error(g, "status")
                THEN /\ Raise("KeyError")
                     /\ waiting_message_printed' = TRUE
                     /\ UNCHANGED << displayed_link_count, dispatched, extractions >>
              ELSE IF changed(progress, status_, d)
                THEN IF key_error(g, "links")
                       THEN /\ Raise("KeyError")
                            /\ waiting_message_printed' = TRUE
                            /\ UNCHANGED << displayed_link_count, dispatched,
                                            extractions >>
                       ELSE /\ displayed_link_count' = r.count
                            /\ dispatched' = dispatched \o r.shown
                            /\ extractions' = extractions + 1
                            /\ waiting_message_printed' = FALSE
                            /\ GoOn
                ELSE /\ waiting_message_printed' = TRUE
                     /\ UNCHANGED << displayed_link_count, dispatched, extractions >>
                     /\ GoOn
  /\ sleeps' = sleeps + 1
  /\ fetches' = fetches + 1
  /\ UNCHANGED << task, call, show_results, status_code, status, returned,
                  printed_complete, stac_checked, events >>
  /\ UNCHANGED << session_vars, user_vars, cleanup_vars, adapter_vars >>

ShowAsyncPoll == ShowAsyncPollFrom(NextDocs(body), {{}})

\* Lines 235 and 248-251: the loop is left; the assertion, check_stac, the
\* message and the return.
ShowAsyncFinish ==
  /\ pc = "loop" /\ call = "show_async"
  /\ key_error(missing, "status") \/ body.status \in TerminalStatuses
  /\ IF key_error(missing, "status")
       THEN /\ Raise("KeyError")
            /\ UNCHANGED << returned, printed_complete, stac_checked >>
       ELSE IF body.status \in FailedStatuses
       THEN /\ Raise("AssertionError")
            /\ UNCHANGED << returned, printed_complete, stac_checked >>
       ELSE IF key_error(missing, "links")
       THEN /\ stac_checked' = TRUE
            /\ Raise("KeyError")
            /\ UNCHANGED << returned, printed_complete >>
       ELSE \E catalog \in Catalogs :
              LET stac == check_stac(response, catalog)
              IN  /\ stac_checked' = TRUE
                  /\ IF stac = "ok"
                       THEN /\ printed_complete' = TRUE
                            /\ returned' = show_async_result(response)
                            /\ pc' = "done"
                            /\ outcome' = "returned"
                       ELSE /\ Raise(stac)
                            /\ UNCHANGED << returned, printed_complete >>
  /\ UNCHANGED << task, call, show_results, status_code, response, missing,
                  displayed_link_count, waiting_message_printed, status,
                  dispatched, extractions, fetches, sleeps, events >>
  /\ UNCHANGED << session_vars, user_vars, cleanup_vars, adapter_vars >>

\* --------------------------------------------------- show_async_condensed
\* Lines 281-288; print_async_status reads the status.
ShowAsyncCondensedStart ==
  /\ pc = "start" /\ call = "show_async_condensed"
  /\ IF ~check_status(status_code)
       THEN /\ Raise("AssertionError")
            /\ UNCHANGED << displayed_link_count, dispatched, extractions >>
       ELSE IF key_error(missing, "status")
                 \/ (show_results /\ key_error(missing, "links"))
       THEN /\ Raise("KeyError")
            /\ UNCHANGED << displayed_link_count, dispatched, extractions >>
       ELSE /\ pc' = "loop"
            /\ outcome' = outcome
            /\ IF show_results
                 THEN LET r == show_response_condensed(response, 0)
                      IN  /\ displayed_link_count' = r.count
                          /\ dispatched' = dispatched \o r.shown
                          /\ extractions' = extractions + 1
                 ELSE /\ displayed_link_count' = 0
                      /\ UNCHANGED << dispatched, extractions >>
  /\ UNCHANGED << task, call, show_results, status_code, response, missing,
                  waiting_message_printed, status, fetches, sleeps, returned,
                  printed_complete, stac_checked, events >>
  /\ UNCHANGED << session_vars, user_vars, cleanup_vars, adapter_vars >>

\* Lines 289-297: one iteration of the loop (it does not sleep); after the
\* links of a changed document are shown print_async_status reads the status.
ShowAsyncCondensedPollFrom(docs, gapsets) ==
  /\ pc = "loop" /\ call = "show_async_condensed"
  /\ ~key_error(missing, "status")
  /\ body.status \notin TerminalStatusesCondensed
  /\ fetches < MaxFetches
  /\ \E d \in docs, g \in gapsets :
       LET progress == body.progress
           status_ == body.status
           fetched == [id |-> fetches + 1, content |-> <<d>>]
           r == show_response_condensed(fetched, displayed_link_count)
       IN  /\ response' = fetched
           /\ missing' = g
           /\ IF progress = d.progress /\ key_error(g, "status")
                THEN /\ Raise("KeyError")
                     /\ UNCHANGED << displayed_link_count, dispatched, extractions >>
              ELSE IF changed_condensed(progress, status_, d)
                THEN IF show_results /\ key_error(g, "links")
                       THEN /\ Raise("KeyError")
                            /\ UNCHANGED << displayed_link_count, dispatched,
                                            extractions >>
                       ELSE /\ IF show_results
                                 THEN /\ displayed_link_count' = r.count
                                      /\ dispatched' = dispatched \o r.shown
                                      /\ extractions' = extractions + 1
                                 ELSE UNCHANGED << displayed_link_count,
                                                   dispatched, extractions >>
                            /\ IF key_error(g, "status")
                                 THEN Raise("KeyError")
                                 ELSE GoOn
                ELSE /\ UNCHANGED << displayed_link_count, dispatched, extractions >>
                     /\ GoOn
  /\ fetches' = fetches + 1
  /\ UNCHANGED << task, call, show_results, status_code, waiting_message_printed,
                  status, sleeps, returned, printed_complete, stac_checked,
                  events >>
  /\ UNCHANGED << session_vars, user_vars, cleanup_vars, adapter_vars >>

ShowAsyncCondensedPoll == ShowAsyncCondensedPollFrom(NextDocs(body), {{}})

\* Lines 289 and 299-301; the function has no return statement.
ShowAsyncCondensedFinish ==
  /\ pc = "loop" /\ call = "show_async_condensed"
  /\ key_error(missing, "status") \/ body.status \in TerminalStatusesCondensed
  /\ IF key_error(missing, "status")
       THEN /\ Raise("KeyError")
            /\ UNCHANGED << returned, printed_complete, stac_checked >>
       ELSE IF body.status \in FailedStatusesCondensed
       THEN /\ Raise("AssertionError")
            /\ UNCHANGED << returned, printed_complete, stac_checked >>
       ELSE IF key_error(missing, "links")
       THEN /\ stac_checked' = TRUE
            /\ Raise("KeyError")
            /\ UNCHANGED << returned, printed_complete >>
       ELSE \E catalog \in Catalogs :
              LET stac == check_stac(response, catalog)
              IN  /\ stac_checked' = TRUE
                  /\ IF stac = "ok"
                       THEN /\ printed_complete' = TRUE
                            /\ returned' = show_async_condensed_result(response)
                            /\ pc' = "done"
                            /\ outcome' = "returned"
                       ELSE /\ Raise(stac)
                            /\ UNCHANGED << returned, printed_complete >>
  /\ UNCHANGED << task, call, show_results, status_code, response, missing,
                  displayed_link_count, waiting_message_printed, status,
                  dispatched, extractions, fetches, sleeps, events >>
  /\ UNCHANGED << session_vars, user_vars, cleanup_vars, adapter_vars >>

\* ------------------------------------------------ wait_for_job_completion
\* Line 47, which is outside the try blocks.
WaitStart ==
  /\ pc = "start" /\ call = "wait_for_job_completion"
  /\ IF key_error(missing, "status")
       THEN /\ Raise("KeyError")
            /\ UNCHANGED status
       ELSE /\ status' = <<body.status>>
            /\ pc' = "loop"
            /\ outcome' = outcome
  /\ UNCHANGED << task, call, show_results, status_code, response, missing,
                  displayed_link_count, waiting_message_printed, dispatched,
                  extractions, fetches, sleeps, returned,
                  printed_complete, stac_checked, events >>
  /\ UNCHANGED << session_vars, user_vars, cleanup_vars, adapter_vars >>

\* Lines 49-53, the fetch returns a document.  Reading its status raises
\* KeyError if it has none; that is caught by line 54, and the handler of
\* line 55 reads response.body, which a requests response does not have, so
\* it raises AttributeError; the outer handler fires the event with it and
\* line 75 returns the status.
WaitPollFrom(docs, gapsets) ==
  /\ pc = "loop" /\ call = "wait_for_job_completion"
  /\ status[1] \notin TerminalStatusesWait
  /\ fetches < MaxFetches
  /\ \E d \in docs, g \in gapsets :
       /\ response' = [id |-> fetches + 1, content |-> <<d>>]
       /\ missing' = g
       /\ IF key_error(g, "status")
            THEN /\ events' = Append(events, "AttributeError")
                 /\ returned' = <<status[1]>>
                 /\ pc' = "done"
                 /\ outcome' = "returned"
                 /\ UNCHANGED status
            ELSE /\ status' = <<d.status>>
                 /\ UNCHANGED << events, returned >>
                 /\ GoOn
  /\ sleeps' = sleeps + 1
  /\ fetches' = fetches + 1
  /\ UNCHANGED << task, call, show_results, status_code, displayed_link_count,
                  waiting_message_printed, dispatched, extractions,
                  printed_complete, stac_checked >>
  /\ UNCHANGED << session_vars, user_vars, cleanup_vars, adapter_vars >>

WaitPoll == WaitPollFrom(NextDocs(body), {{}})

\* Lines 49-55 and 66-75, the fetch or the decoding of its body raises: the
\* handlers run as for a document without status.  When the fetch itself
\* raises (line 52) the local `response` keeps the previous response; when
\* the fetch answers and response.json() raises (line 53) line 52 has
\* already bound `response` to the fetched response, whose body is no
\* document.
WaitPollError ==
  /\ pc = "loop" /\ call = "wait_for_job_completion"
  /\ status[1] \notin TerminalStatusesWait
  /\ fetches < MaxFetches
  /\ \/ response' = response
     \/ response' = undecodable(fetches + 1)
  /\ sleeps' = sleeps + 1
  /\ fetches' = fetches + 1
  /\ events' = Append(events, "AttributeError")
  /\ returned' = <<status[1]>>
  /\ pc' = "done"
  /\ outcome' = "returned"
  /\ UNCHANGED << task, call, show_results, status_code, missing,
                  displayed_link_count, waiting_message_printed, status,
                  dispatched, extractions, printed_complete, stac_checked >>
  /\ UNCHANGED << session_vars, user_vars, cleanup_vars, adapter_vars >>

\* Lines 57-75: the assertion, the event and the return.
WaitFinish ==
  /\ pc = "loop" /\ call = "wait_for_job_completion"
  /\ status[1] \in TerminalStatusesWait
  /\ events' = Append(events, IF status[1] \in FailedStatusesWait
                                THEN "AssertionError" ELSE "None")
  /\ returned' = <<status[1]>>
  /\ pc' = "done"
  /\ outcome' = "returned"
  /\ UNCHANGED << task, call, show_results, status_code, response, missing,
                  displayed_link_count, waiting_message_printed, status,
                  dispatched, extractions, fetches, sleeps, printed_complete,
                  stac_checked >>
  /\ UNCHANGED << session_vars, user_vars, cleanup_vars, adapter_vars >>

Next ==
  \/ ShowAsyncStart
  \/ ShowAsyncPoll
  \/ ShowAsyncFinish
  \/ ShowAsyncCondensedStart
  \/ ShowAsyncCondensedPoll
  \/ ShowAsyncCondensedFinish
  \/ WaitStart
  \/ WaitPoll
  \/ WaitPollError
  \/ WaitFinish

Spec == Init /\ [][Next]_vars

\* ------------------------------------- poll calls on malformed documents
\* As Spec, but a status document may lack "status" or "links".
ShowAsyncPollMalformed == ShowAsyncPollFrom(FewNextDocs(body), Gaps)
ShowAsyncCondensedPollMalformed ==
  ShowAsyncCondensedPollFrom(FewNextDocs(body), Gaps)
WaitPollMalformed == WaitPollFrom(FewNextDocs(body), Gaps)

InitMalformed ==
  /\ PollInit(FewInitialDocs, Gaps)
  /\ SessionsIdle /\ UsersIdle /\ CleanupIdle /\ AdapterIdle

NextMalformed ==
  \/ ShowAsyncStart
  \/ ShowAsyncPollMalformed
  \/ ShowAsyncFinish
  \/ ShowAsyncCondensedStart
  \/ ShowAsyncCondensedPollMalformed
  \/ ShowAsyncCondensedFinish
  \/ WaitStart
  \/ WaitPollMalformed
  \/ WaitPollError
  \/ WaitFinish

SpecMalformed == InitMalformed /\ [][NextMalformed]_vars

\* ------------------------------------------- poll calls on jobs that end
\* As Spec, but the job ends within the fetches the bound allows, no fetch
\* raises, and a call that can take a step takes one.
ShowAsyncPollLive == ShowAsyncPollFrom(DeadlineDocs, {{}})
ShowAsyncCondensedPollLive == ShowAsyncCondensedPollFrom(DeadlineDocs, {{}})
WaitPollLive == WaitPollFrom(DeadlineDocs, {{}})

NextLive ==
  \/ ShowAsyncStart
  \/ ShowAsyncPollLive
  \/ ShowAsyncFinish
  \/ ShowAsyncCondensedStart
  \/ ShowAsyncCondensedPollLive
  \/ ShowAsyncCondensedFinish
  \/ WaitStart
  \/ WaitPollLive
  \/ WaitFinish

InitLive ==
  /\ PollInit(FewInitialDocs, {{}})
  /\ SessionsIdle /\ UsersIdle /\ CleanupIdle /\ AdapterIdle

SpecLive == InitLive /\ [][NextLive]_vars /\ WF_vars(NextLive)

\* ------------------------------------------- show_async calls side by side
\* Two calls of show_async for two jobs.  A call gives way wherever the code
\* blocks: in every get(link) of show_response (line 227), in sleep(1) (line
\* 239) and in session.get (line 242); between two such points the other
\* call may take any number of steps.  A call may be interrupted wherever it
\* is, and show_async is then called again for the same job.
Sessions == {"s1", "s2"}

\* Where a call is: before line 230; in show_response's loop, before its
\* next link (line 225); at the loop test (line 235); in sleep(1) (line
\* 239); in session.get (line 242); ended.
SessionPcs == {"start", "show", "loop", "sleep", "fetch", "done"}

\* The links each job ends with; a status document of the job carries a
\* prefix of them.  The catalog link of job s2 has an empty href.
JobLinks ==
  [s \in Sessions |->
     IF s = "s1"
       THEN << [href |-> HTTP \o <<"a", "1">>, rel |-> "data", title |-> "x"],
               [href |-> <<"s", "3", "c">>, rel |-> "data", title |-> "x"],
               [href |-> HTTP \o <<"k", "1">>, rel |-> "stac-catalog-json",
                title |-> "STAC catalog"],
               [href |-> HTTP \o <<"a", "2">>, rel |-> "data", title |-> "x"] >>
       ELSE << [href |-> HTTP \o <<"b", "1">>, rel |-> "data", title |-> "x"],
               [href |-> HTTP \o <<"b", "2">>, rel |-> "data", title |-> "x"],
               [href |-> <<>>, rel |-> "stac-catalog-json",
                title |-> "STAC catalog"] >>]

\* The statuses the server reports for a job; job s2 does not fail.
SessionStatuses ==
  [s \in Sessions |->
     IF s = "s1" THEN {"running", "successful", "failed"}
     ELSE {"running", "successful"}]

\* The progress values the server reports for a job; job s2 ends without
\* reporting progress.
SessionProgresses == [s \in Sessions |-> IF s = "s1" THEN {0, 50} ELSE {0}]

\* The documents of job s with at least `least` links.
SessionDocs(s, least) ==
  { [status |-> st, progress |-> p, links |-> SubSeq(JobLinks[s], 1, k)] :
      st \in SessionStatuses[s], p \in SessionProgresses[s],
      k \in least..Len(JobLinks[s]) }

\* The responses show_async can be called with for job s.
SessionResponses(s) ==
  { [id |-> 0, content |-> <<d>>] : d \in SessionDocs(s, 0) }

\* Mutant: one counter for all calls.
link_count_cell_shared(s) == "s1"

\* Where call s keeps displayed_link_count: a local of the call.
link_count_cell(s) == s

InitSessions ==
  /\ s_pc = [s \in Sessions |-> "start"]
  /\ s_response \in
       { f \in [Sessions -> UNION { SessionResponses(s) : s \in Sessions }] :
           \A s \in Sessions : f[s] \in SessionResponses(s) }
  /\ s_new_links = [s \in Sessions |-> <<>>]
  /\ s_links_len = [s \in Sessions |-> 0]
  /\ s_dispatched = [s \in Sessions |-> <<>>]
  /\ s_restarted = [s \in Sessions |-> "no"]
  /\ s_outcome = [s \in Sessions |-> "none"]
  /\ s_returned = [s \in Sessions |-> None]
  /\ link_counts = [s \in Sessions |-> 0]
  /\ PollIdle /\ UsersIdle /\ CleanupIdle /\ AdapterIdle

\* Lines 220-224 of call s: show_response is entered with the value of
\* displayed_link_count; `links` and `new_links` are computed.
show_response_enter(s, response_) ==
  LET link_count == link_counts'[link_count_cell(s)]
      links == get_data_urls(response_)
  IN  /\ s_new_links' = [s_new_links EXCEPT ![s] = slice(links, link_count)]
      /\ s_links_len' = [s_links_len EXCEPT ![s] = Len(links)]
      /\ s_pc' = [s_pc EXCEPT ![s] = "show"]

\* Lines 230-233 of call s (the response's status code is 200): the counter
\* is set to 0 and show_response is entered with it.
SessionStart(s) ==
  /\ s_pc[s] = "start"
  /\ link_counts' = [link_counts EXCEPT ![link_count_cell(s)] = 0]
  /\ show_response_enter(s, s_response[s])
  /\ UNCHANGED << s_response, s_dispatched, s_restarted, s_outcome, s_returned >>
  /\ UNCHANGED << poll_vars, user_vars, cleanup_vars, adapter_vars >>

\* Lines 225-227 of call s: one turn of show_response's loop; an http link
\* is fetched and shown, another link is passed over.
SessionShow(s) ==
  /\ s_pc[s] = "show"
  /\ s_new_links[s] # <<>>
  /\ LET link == Head(s_new_links[s])
     IN  s_dispatched' =
           [s_dispatched EXCEPT ![s] =
              IF startswith(link, HTTP) THEN Append(@, link) ELSE @]
  /\ s_new_links' = [s_new_links EXCEPT ![s] = Tail(@)]
  /\ UNCHANGED << s_pc, s_response, s_links_len, s_restarted, s_outcome,
                  s_returned, link_counts >>
  /\ UNCHANGED << poll_vars, user_vars, cleanup_vars, adapter_vars >>

\* Line 228 and the assignment of line 233 or 245 of call s: show_response
\* returns len(links), which becomes the counter.
SessionShown(s) ==
  /\ s_pc[s] = "show"
  /\ s_new_links[s] = <<>>
  /\ link_counts' = [link_counts EXCEPT ![link_count_cell(s)] = s_links_len[s]]
  /\ s_pc' = [s_pc EXCEPT ![s] = "loop"]
  /\ UNCHANGED << s_response, s_new_links, s_links_len, s_dispatched,
                  s_restarted, s_outcome, s_returned >>
  /\ UNCHANGED << poll_vars, user_vars, cleanup_vars, adapter_vars >>

\* Lines 235-239 of call s: the loop goes on and the call sleeps.
SessionSleep(s) ==
  /\ s_pc[s] = "loop"
  /\ json(s_response[s]).status \notin TerminalStatuses
  /\ s_pc' = [s_pc EXCEPT ![s] = "sleep"]
  /\ UNCHANGED << s_response, s_new_links, s_links_len, s_dispatched,
                  s_restarted, s_outcome, s_returned, link_counts >>
  /\ UNCHANGED << poll_vars, user_vars, cleanup_vars, adapter_vars >>

\* Lines 240-242 of call s: the sleep is over, the fetch is sent.
SessionWake(s) ==
  /\ s_pc[s] = "sleep"
  /\ s_pc' = [s_pc EXCEPT ![s] = "fetch"]
  /\ UNCHANGED << s_response, s_new_links, s_links_len, s_dispatched,
                  s_restarted, s_outcome, s_returned, link_counts >>
  /\ UNCHANGED << poll_vars, user_vars, cleanup_vars, adapter_vars >>

\* Lines 242-245 of call s: the fetch answers; if progress or status
\* changed, show_response is entered with the counter.
SessionFetch(s) ==
  /\ s_pc[s] = "fetch"
  /\ \E d \in SessionDocs(s, Len(json(s_response[s]).links)) :
       LET progress == json(s_response[s]).progress
           status_ == json(s_response[s]).status
           fetched == [id |-> 0, content |-> <<d>>]
       IN  /\ s_response' = [s_response EXCEPT ![s] = fetched]
           /\ link_counts' = link_counts
           /\ IF changed(progress, status_, d)
                THEN show_response_enter(s, fetched)
                ELSE /\ s_pc' = [s_pc EXCEPT ![s] = "loop"]
                     /\ UNCHANGED << s_new_links, s_links_len >>
  /\ UNCHANGED << s_dispatched, s_restarted, s_outcome, s_returned >>
  /\ UNCHANGED << poll_vars, user_vars, cleanup_vars, adapter_vars >>

\* Lines 235 and 248-251 of call s: the loop is left; the assertion,
\* check_stac and the return.
SessionFinish(s) ==
  /\ s_pc[s] = "loop"
  /\ json(s_response[s]).status \in TerminalStatuses
  /\ \E catalog \in Catalogs :
       LET stac == check_stac(s_response[s], catalog)
       IN  IF json(s_response[s]).status \in FailedStatuses
             THEN /\ s_outcome' = [s_outcome EXCEPT ![s] = "AssertionError"]
                  /\ UNCHANGED s_returned
           ELSE IF stac = "ok"
             THEN /\ s_outcome' = [s_outcome EXCEPT ![s] = "returned"]
                  /\ s_returned' =
                       [s_returned EXCEPT ![s] = show_async_result(s_response[s])]
           ELSE /\ s_outcome' = [s_outcome EXCEPT ![s] = stac]
                /\ UNCHANGED s_returned
  /\ s_pc' = [s_pc EXCEPT ![s] = "done"]
  /\ UNCHANGED << s_response, s_new_links, s_links_len, s_dispatched,
                  s_restarted, link_counts >>
  /\ UNCHANGED << poll_vars, user_vars, cleanup_vars, adapter_vars >>

\* Call s is interrupted (KeyboardInterrupt) wherever it is, and show_async
\* is called again with a response of the job (once per job).  The locals of
\* the interrupted call are gone; the new call has shown nothing yet.
SessionAbort(s) ==
  /\ s_pc[s] \in {"show", "loop", "sleep", "fetch"}
  /\ s_restarted[s] = "no"
  /\ s_pc' = [s_pc EXCEPT ![s] = "start"]
  /\ \E r \in SessionResponses(s) : s_response' = [s_response EXCEPT ![s] = r]
  /\ s_new_links' = [s_new_links EXCEPT ![s] = <<>>]
  /\ s_links_len' = [s_links_len EXCEPT ![s] = 0]
  /\ s_dispatched' = [s_dispatched EXCEPT ![s] = <<>>]
  /\ s_restarted' = [s_restarted EXCEPT ![s] = s_pc[s]]
  /\ UNCHANGED << s_outcome, s_returned, link_counts >>
  /\ UNCHANGED << poll_vars, user_vars, cleanup_vars, adapter_vars >>

NextSessions ==
  \E s \in Sessions :
    \/ SessionStart(s)
    \/ SessionShow(s)
    \/ SessionShown(s)
    \/ SessionSleep(s)
    \/ SessionWake(s)
    \/ SessionFetch(s)
    \/ SessionFinish(s)
    \/ SessionAbort(s)

SpecSessions == InitSessions /\ [][NextSessions]_vars

\* ----------------------------------------------------------------- on_start
\* The users of a load test run on_start concurrently; one step of a user is
\* one line of on_start.  The set-up request returns or raises.
Users == {"u1", "u2", "u3"}

\* The lines between mutex.acquire() and mutex.release().
CriticalSection == {"check", "get", "store", "adopt", "release"}

\* Mutant: acquire does not wait.
can_acquire_always(m) == TRUE

\* mutex.acquire() returns only when no user holds the lock.
can_acquire(m) == m = "free"

\* Mutant: an exception leaves on_start at once.
after_raise_leaves == "done"

\* Where an exception of line 21 goes on: the finally block.
after_raise == "release"

InitOnStart ==
  /\ mutex = "free"
  /\ session_cookies = None
  /\ u_pc = [u \in Users |-> "idle"]
  /\ client_cookies = [u \in Users |-> u]
  /\ setup_requests = <<>>
  /\ u_raised = {}
  /\ PollIdle /\ SessionsIdle /\ CleanupIdle /\ AdapterIdle

\* Lines 14-17: on_start is entered.
OnStartBegin(u) ==
  /\ u_pc[u] = "idle"
  /\ u_pc' = [u_pc EXCEPT ![u] = "acquire"]
  /\ UNCHANGED << mutex, session_cookies, client_cookies, setup_requests,
                  u_raised >>
  /\ UNCHANGED << poll_vars, session_vars, cleanup_vars, adapter_vars >>

\* Line 18.
OnStartAcquire(u) ==
  /\ u_pc[u] = "acquire"
  /\ can_acquire(mutex)
  /\ mutex' = u
  /\ u_pc' = [u_pc EXCEPT ![u] = "check"]
  /\ UNCHANGED << session_cookies, client_cookies, setup_requests, u_raised >>
  /\ UNCHANGED << poll_vars, session_vars, cleanup_vars, adapter_vars >>

\* Lines 19 and 23.
OnStartCheck(u) ==
  /\ u_pc[u] = "check"
  /\ u_pc' = [u_pc EXCEPT ![u] = IF session_cookies = None THEN "get"
                                                            ELSE "adopt"]
  /\ UNCHANGED << mutex, session_cookies, client_cookies, setup_requests,
                  u_raised >>
  /\ UNCHANGED << poll_vars, session_vars, cleanup_vars, adapter_vars >>

\* Lines 20-21: the set-up request, which returns or raises.
OnStartGet(u) ==
  /\ u_pc[u] = "get"
  /\ setup_requests' = Append(setup_requests, u)
  /\ \E returns \in BOOLEAN :
       IF returns
         THEN /\ u_pc' = [u_pc EXCEPT ![u] = "store"]
              /\ UNCHANGED u_raised
         ELSE /\ u_pc' = [u_pc EXCEPT ![u] = after_raise]
              /\ u_raised' = u_raised \cup {u}
  /\ UNCHANGED << mutex, session_cookies, client_cookies >>
  /\ UNCHANGED << poll_vars, session_vars, cleanup_vars, adapter_vars >>

\* Line 22.
OnStartStore(u) ==
  /\ u_pc[u] = "store"
  /\ session_cookies' = <<client_cookies[u]>>
  /\ u_pc' = [u_pc EXCEPT ![u] = "release"]
  /\ UNCHANGED << mutex, client_cookies, setup_requests, u_raised >>
  /\ UNCHANGED << poll_vars, session_vars, cleanup_vars, adapter_vars >>

\* Line 24.
OnStartAdopt(u) ==
  /\ u_pc[u] = "adopt"
  /\ client_cookies' = [client_cookies EXCEPT ![u] = session_cookies[1]]
  /\ u_pc' = [u_pc EXCEPT ![u] = "release"]
  /\ UNCHANGED << mutex, session_cookies, setup_requests, u_raised >>
  /\ UNCHANGED << poll_vars, session_vars, cleanup_vars, adapter_vars >>

\* Lines 25-26; on_start returns, or the exception of line 21 goes on to the
\* caller.
OnStartRelease(u) ==
  /\ u_pc[u] = "release"
  /\ mutex' = "free"
  /\ u_pc' = [u_pc EXCEPT ![u] = "done"]
  /\ UNCHANGED << session_cookies, client_cookies, setup_requests, u_raised >>
  /\ UNCHANGED << poll_vars, session_vars, cleanup_vars, adapter_vars >>

\* A step of user u inside on_start.
OnStartStep(u) ==
  \/ OnStartAcquire(u)
  \/ OnStartCheck(u)
  \/ OnStartGet(u)
  \/ OnStartStore(u)
  \/ OnStartAdopt(u)
  \/ OnStartRelease(u)

NextOnStart ==
  \E u \in Users :
    \/ OnStartBegin(u)
    \/ OnStartAcquire(u)
    \/ OnStartCheck(u)
    \/ OnStartGet(u)
    \/ OnStartStore(u)
    \/ OnStartAdopt(u)
    \/ OnStartRelease(u)

SpecOnStart == InitOnStart /\ [][NextOnStart]_vars

\* The scheduler lets every user that can take a step of on_start take one.
SpecOnStartFair == SpecOnStart /\ \A u \in Users : WF_vars(OnStartStep(u))

\* -------------------------------------------------- cleanup_old_services.py
\* One run of the script.  Strings the script compares are sequences of
\* characters, the text typed at the prompt, which the script lowercases, a
\* sequence of code points; what the cluster, the database and the bucket answer are
\* inputs of the step that asks them.
UAT == <<"u", "a", "t">>
SIT == <<"s", "i", "t">>
\* "yes", as code points
YES == <<121, 101, 115>>

\* The command lines and environments of a run; AWS_PROFILE may be unset.
CleanupArgs ==
  [auto : BOOLEAN,
   environment_name : {UAT, SIT},
   profile : {None, <<<<"h", "-">> \o UAT>>, <<SIT>>}]

\* What may be typed at the prompt, as code points: 'yes' in every mix of
\* letter cases, and texts that are not 'yes' in any: "yes ", " YES",
\* "YESS", "y", "YE", "no", "NO", "OK", "YEP", the empty text, and with
\* letters outside ASCII "Y", U+00C9, "S"; U+00DD, "ES"; and "YE", U+03A3.
Inputs ==
  { <<a, b, c>> : a \in {121, 89}, b \in {101, 69}, c \in {115, 83} }
    \cup { <<121, 101, 115, 32>>, <<32, 89, 69, 83>>, <<89, 69, 83, 83>>,
           <<121>>, <<89, 69>>, <<110, 111>>, <<78, 79>>, <<79, 75>>,
           <<89, 69, 80>>, <<>>,
           <<89, 201, 83>>, <<221, 69, 83>>, <<89, 69, 931>> }

Images == {"i1", "i2"}

\* What `kubectl get deployments` lists, by prefix, in the order listed.
DeploymentsByPrefix ==
  { << p, q >> : p \in {<<>>, <<"p-1">>, <<"p-1", "p-2">>},
                 q \in {<<>>, <<"q-1", "q-2">>} }

Deployments == {"p-1", "p-2", "q-1", "q-2"}

\* The lists of images the database or the bucket may answer.
ImageLists == {<<>>, <<"i1">>, <<"i2">>, <<"i1", "i2">>}

\* Mutant: every profile matches.
contains_always(s, sub) == TRUE

\* sub in s, for strings
contains(s, sub) ==
  /\ Len(s) >= Len(sub)
  /\ \E i \in 0..(Len(s) - Len(sub)) : SubSeq(s, i + 1, i + Len(sub)) = sub

\* str.lower() is computed as the interpreter computes it, from the
\* Unicode tables of its version (3.11).  A text that is lowercased is a
\* sequence of code points.
\*
\* The code points with a one-character lower case that is another
\* character: <<first, last, step, lower case of first>>; the code points
\* first, first + step, ... up to last lower to consecutive code points.
LowerRanges ==
  << <<65, 90, 1, 97>>, <<192, 214, 1, 224>>, <<216, 222, 1, 248>>, <<256, 302, 2, 257>>,
     <<306, 310, 2, 307>>, <<313, 327, 2, 314>>, <<330, 374, 2, 331>>, <<376, 376, 1, 255>>,
     <<377, 381, 2, 378>>, <<385, 385, 1, 595>>, <<386, 388, 2, 387>>, <<390, 390, 1, 596>>,
     <<391, 391, 1, 392>>, <<393, 394, 1, 598>>, <<395, 395, 1, 396>>, <<398, 398, 1, 477>>,
     <<399, 399, 1, 601>>, <<400, 400, 1, 603>>, <<401, 401, 1, 402>>, <<403, 403, 1, 608>>,
     <<404, 404, 1, 611>>, <<406, 406, 1, 617>>, <<407, 407, 1, 616>>, <<408, 408, 1, 409>>,
     <<412, 412, 1, 623>>, <<413, 413, 1, 626>>, <<415, 415, 1, 629>>, <<416, 420, 2, 417>>,
     <<422, 422, 1, 640>>, <<423, 423, 1, 424>>, <<425, 425, 1, 643>>, <<428, 428, 1, 429>>,
     <<430, 430, 1, 648>>, <<431, 431, 1, 432>>, <<433, 434, 1, 650>>, <<435, 437, 2, 436>>,
     <<439, 439, 1, 658>>, <<440, 440, 1, 441>>, <<444, 444, 1, 445>>, <<452, 452, 1, 454>>,
     <<453, 453, 1, 454>>, <<455, 455, 1, 457>>, <<456, 456, 1, 457>>, <<458, 458, 1, 460>>,
     <<459, 475, 2, 460>>, <<478, 494, 2, 479>>, <<497, 497, 1, 499>>, <<498, 500, 2, 499>>,
     <<502, 502, 1, 405>>, <<503, 503, 1, 447>>, <<504, 542, 2, 505>>, <<544, 544, 1, 414>>,
     <<546, 562, 2, 547>>, <<570, 570, 1, 11365>>, <<571, 571, 1, 572>>, <<573, 573, 1, 410>>,
     <<574, 574, 1, 11366>>, <<577, 577, 1, 578>>, <<579, 579, 1, 384>>, <<580, 580, 1, 649>>,
     <<581, 581, 1, 652>>, <<582, 590, 2, 583>>, <<880, 882, 2, 881>>, <<886, 886, 1, 887>>,
     <<895, 895, 1, 1011>>, <<902, 902, 1, 940>>, <<904, 906, 1, 941>>, <<908, 908, 1, 972>>,
     <<910, 911, 1, 973>>, <<913, 929, 1, 945>>, <<931, 939, 1, 963>>, <<975, 975, 1, 983>>,
     <<984, 1006, 2, 985>>, <<1012, 1012, 1, 952>>, <<1015, 1015, 1, 1016>>, <<1017, 1017, 1, 1010>>,
     <<1018, 1018, 1, 1019>>, <<1021, 1023, 1, 891>>, <<1024, 1039, 1, 1104>>, <<1040, 1071, 1, 1072>>,
     <<1120, 1152, 2, 1121>>, <<1162, 1214, 2, 1163>>, <<1216, 1216, 1, 1231>>, <<1217, 1229, 2, 1218>>,
     <<1232, 1326, 2, 1233>>, <<1329, 1366, 1, 1377>>, <<4256, 4293, 1, 11520>>, <<4295, 4295, 1, 11559>>,
     <<4301, 4301, 1, 11565>>, <<5024, 5103, 1, 43888>>, <<5104, 5109, 1, 5112>>, <<7312, 7354, 1, 4304>>,
     <<7357, 7359, 1, 4349>>, <<7680, 7828, 2, 7681>>, <<7838, 7838, 1, 223>>, <<7840, 7934, 2, 7841>>,
     <<7944, 7951, 1, 7936>>, <<7960, 7965, 1, 7952>>, <<7976, 7983, 1, 7968>>, <<7992, 7999, 1, 7984>>,
     <<8008, 8013, 1, 8000>>, <<8025, 8031, 2, 8017>>, <<8040, 8047, 1, 8032>>, <<8072, 8079, 1, 8064>>,
     <<8088, 8095, 1, 8080>>, <<8104, 8111, 1, 8096>>, <<8120, 8121, 1, 8112>>, <<8122, 8123, 1, 8048>>,
     <<8124, 8124, 1, 8115>>, <<8136, 8139, 1, 8050>>, <<8140, 8140, 1, 8131>>, <<8152, 8153, 1, 8144>>,
     <<8154, 8155, 1, 8054>>, <<8168, 8169, 1, 8160>>, <<8170, 8171, 1, 8058>>, <<8172, 8172, 1, 8165>>,
     <<8184, 8185, 1, 8056>>, <<8186, 8187, 1, 8060>>, <<8188, 8188, 1, 8179>>, <<8486, 8486, 1, 969>>,
     <<8490, 8490, 1, 107>>, <<8491, 8491, 1, 229>>, <<8498, 8498, 1, 8526>>, <<8544, 8559, 1, 8560>>,
     <<8579, 8579, 1, 8580>>, <<9398, 9423, 1, 9424>>, <<11264, 11311, 1, 11312>>, <<11360, 11360, 1, 11361>>,
     <<11362, 11362, 1, 619>>, <<11363, 11363, 1, 7549>>, <<11364, 11364, 1, 637>>, <<11367, 11371, 2, 11368>>,
     <<11373, 11373, 1, 593>>, <<11374, 11374, 1, 625>>, <<11375, 11375, 1, 592>>, <<11376, 11376, 1, 594>>,
     <<11378, 11378, 1, 11379>>, <<11381, 11381, 1, 11382>>, <<11390, 11391, 1, 575>>, <<11392, 11490, 2, 11393>>,
     <<11499, 11501, 2, 11500>>, <<11506, 11506, 1, 11507>>, <<42560, 42604, 2, 42561>>, <<42624, 42650, 2, 42625>>,
     <<42786, 42798, 2, 42787>>, <<42802, 42862, 2, 42803>>, <<42873, 42875, 2, 42874>>, <<42877, 42877, 1, 7545>>,
     <<42878, 42886, 2, 42879>>, <<42891, 42891, 1, 42892>>, <<42893, 42893, 1, 613>>, <<42896, 42898, 2, 42897>>,
     <<42902, 42920, 2, 42903>>, <<42922, 42922, 1, 614>>, <<42923, 42923, 1, 604>>, <<42924, 42924, 1, 609>>,
     <<42925, 42925, 1, 620>>, <<42926, 42926, 1, 618>>, <<42928, 42928, 1, 670>>, <<42929, 42929, 1, 647>>,
     <<42930, 42930, 1, 669>>, <<42931, 42931, 1, 43859>>, <<42932, 42946, 2, 42933>>, <<42948, 42948, 1, 42900>>,
     <<42949, 42949, 1, 642>>, <<42950, 42950, 1, 7566>>, <<42951, 42953, 2, 42952>>, <<42960, 42960, 1, 42961>>,
     <<42966, 42968, 2, 42967>>, <<42997, 42997, 1, 42998>>, <<65313, 65338, 1, 65345>>, <<66560, 66599, 1, 66600>>,
     <<66736, 66771, 1, 66776>>, <<66928, 66938, 1, 66967>>, <<66940, 66954, 1, 66979>>, <<66956, 66962, 1, 66995>>,
     <<66964, 66965, 1, 67003>>, <<68736, 68786, 1, 68800>>, <<71840, 71871, 1, 71872>>, <<93760, 93791, 1, 93792>>,
     <<125184, 125217, 1, 125218>> >>

\* The cased code points that are not case-ignorable: <<first, last>>.
CasedRanges ==
  << <<65, 90>>, <<97, 122>>, <<170, 170>>, <<181, 181>>, <<186, 186>>,
     <<192, 214>>, <<216, 246>>, <<248, 442>>, <<444, 447>>, <<452, 659>>,
     <<661, 687>>, <<880, 883>>, <<886, 887>>, <<891, 893>>, <<895, 895>>,
     <<902, 902>>, <<904, 906>>, <<908, 908>>, <<910, 929>>, <<931, 1013>>,
     <<1015, 1153>>, <<1162, 1327>>, <<1329, 1366>>, <<1376, 1416>>, <<4256, 4293>>,
     <<4295, 4295>>, <<4301, 4301>>, <<4304, 4346>>, <<4349, 4351>>, <<5024, 5109>>,
     <<5112, 5117>>, <<7296, 7304>>, <<7312, 7354>>, <<7357, 7359>>, <<7424, 7467>>,
     <<7531, 7543>>, <<7545, 7578>>, <<7680, 7957>>, <<7960, 7965>>, <<7968, 8005>>,
     <<8008, 8013>>, <<8016, 8023>>, <<8025, 8025>>, <<8027, 8027>>, <<8029, 8029>>,
     <<8031, 8061>>, <<8064, 8116>>, <<8118, 8124>>, <<8126, 8126>>, <<8130, 8132>>,
     <<8134, 8140>>, <<8144, 8147>>, <<8150, 8155>>, <<8160, 8172>>, <<8178, 8180>>,
     <<8182, 8188>>, <<8450, 8450>>, <<8455, 8455>>, <<8458, 8467>>, <<8469, 8469>>,
     <<8473, 8477>>, <<8484, 8484>>, <<8486, 8486>>, <<8488, 8488>>, <<8490, 8493>>,
     <<8495, 8500>>, <<8505, 8505>>, <<8508, 8511>>, <<8517, 8521>>, <<8526, 8526>>,
     <<8544, 8575>>, <<8579, 8580>>, <<9398, 9449>>, <<11264, 11387>>, <<11390, 11492>>,
     <<11499, 11502>>, <<11506, 11507>>, <<11520, 11557>>, <<11559, 11559>>, <<11565, 11565>>,
     <<42560, 42605>>, <<42624, 42651>>, <<42786, 42863>>, <<42865, 42887>>, <<42891, 42894>>,
     <<42896, 42954>>, <<42960, 42961>>, <<42963, 42963>>, <<42965, 42969>>, <<42997, 42998>>,
     <<43002, 43002>>, <<43824, 43866>>, <<43872, 43880>>, <<43888, 43967>>, <<64256, 64262>>,
     <<64275, 64279>>, <<65313, 65338>>, <<65345, 65370>>, <<66560, 66639>>, <<66736, 66771>>,
     <<66776, 66811>>, <<66928, 66938>>, <<66940, 66954>>, <<66956, 66962>>, <<66964, 66965>>,
     <<66967, 66977>>, <<66979, 66993>>, <<66995, 67001>>, <<67003, 67004>>, <<68736, 68786>>,
     <<68800, 68850>>, <<71840, 71903>>, <<93760, 93823>>, <<119808, 119892>>, <<119894, 119964>>,
     <<119966, 119967>>, <<119970, 119970>>, <<119973, 119974>>, <<119977, 119980>>, <<119982, 119993>>,
     <<119995, 119995>>, <<119997, 120003>>, <<120005, 120069>>, <<120071, 120074>>, <<120077, 120084>>,
     <<120086, 120092>>, <<120094, 120121>>, <<120123, 120126>>, <<120128, 120132>>, <<120134, 120134>>,
     <<120138, 120144>>, <<120146, 120485>>, <<120488, 120512>>, <<120514, 120538>>, <<120540, 120570>>,
     <<120572, 120596>>, <<120598, 120628>>, <<120630, 120654>>, <<120656, 120686>>, <<120688, 120712>>,
     <<120714, 120744>>, <<120746, 120770>>, <<120772, 120779>>, <<122624, 122633>>, <<122635, 122654>>,
     <<125184, 125251>>, <<127280, 127305>>, <<127312, 127337>>, <<127344, 127369>> >>

\* The case-ignorable code points: <<first, last>>.
CaseIgnorableRanges ==
  << <<39, 39>>, <<46, 46>>, <<58, 58>>, <<94, 94>>, <<96, 96>>,
     <<168, 168>>, <<173, 173>>, <<175, 175>>, <<180, 180>>, <<183, 184>>,
     <<688, 879>>, <<884, 885>>, <<890, 890>>, <<900, 901>>, <<903, 903>>,
     <<1155, 1161>>, <<1369, 1369>>, <<1375, 1375>>, <<1425, 1469>>, <<1471, 1471>>,
     <<1473, 1474>>, <<1476, 1477>>, <<1479, 1479>>, <<1524, 1524>>, <<1536, 1541>>,
     <<1552, 1562>>, <<1564, 1564>>, <<1600, 1600>>, <<1611, 1631>>, <<1648, 1648>>,
     <<1750, 1757>>, <<1759, 1768>>, <<1770, 1773>>, <<1807, 1807>>, <<1809, 1809>>,
     <<1840, 1866>>, <<1958, 1968>>, <<2027, 2037>>, <<2042, 2042>>, <<2045, 2045>>,
     <<2070, 2093>>, <<2137, 2139>>, <<2184, 2184>>, <<2192, 2193>>, <<2200, 2207>>,
     <<2249, 2306>>, <<2362, 2362>>, <<2364, 2364>>, <<2369, 2376>>, <<2381, 2381>>,
     <<2385, 2391>>, <<2402, 2403>>, <<2417, 2417>>, <<2433, 2433>>, <<2492, 2492>>,
     <<2497, 2500>>, <<2509, 2509>>, <<2530, 2531>>, <<2558, 2558>>, <<2561, 2562>>,
     <<2620, 2620>>, <<2625, 2626>>, <<2631, 2632>>, <<2635, 2637>>, <<2641, 2641>>,
     <<2672, 2673>>, <<2677, 2677>>, <<2689, 2690>>, <<2748, 2748>>, <<2753, 2757>>,
     <<2759, 2760>>, <<2765, 2765>>, <<2786, 2787>>, <<2810, 2815>>, <<2817, 2817>>,
     <<2876, 2876>>, <<2879, 2879>>, <<2881, 2884>>, <<2893, 2893>>, <<2901, 2902>>,
     <<2914, 2915>>, <<2946, 2946>>, <<3008, 3008>>, <<3021, 3021>>, <<3072, 3072>>,
     <<3076, 3076>>, <<3132, 3132>>, <<3134, 3136>>, <<3142, 3144>>, <<3146, 3149>>,
     <<3157, 3158>>, <<3170, 3171>>, <<3201, 3201>>, <<3260, 3260>>, <<3263, 3263>>,
     <<3270, 3270>>, <<3276, 3277>>, <<3298, 3299>>, <<3328, 3329>>, <<3387, 3388>>,
     <<3393, 3396>>, <<3405, 3405>>, <<3426, 3427>>, <<3457, 3457>>, <<3530, 3530>>,
     <<3538, 3540>>, <<3542, 3542>>, <<3633, 3633>>, <<3636, 3642>>, <<3654, 3662>>,
     <<3761, 3761>>, <<3764, 3772>>, <<3782, 3782>>, <<3784, 3789>>, <<3864, 3865>>,
     <<3893, 3893>>, <<3895, 3895>>, <<3897, 3897>>, <<3953, 3966>>, <<3968, 3972>>,
     <<3974, 3975>>, <<3981, 3991>>, <<3993, 4028>>, <<4038, 4038>>, <<4141, 4144>>,
     <<4146, 4151>>, <<4153, 4154>>, <<4157, 4158>>, <<4184, 4185>>, <<4190, 4192>>,
     <<4209, 4212>>, <<4226, 4226>>, <<4229, 4230>>, <<4237, 4237>>, <<4253, 4253>>,
     <<4348, 4348>>, <<4957, 4959>>, <<5906, 5908>>, <<5938, 5939>>, <<5970, 5971>>,
     <<6002, 6003>>, <<6068, 6069>>, <<6071, 6077>>, <<6086, 6086>>, <<6089, 6099>>,
     <<6103, 6103>>, <<6109, 6109>>, <<6155, 6159>>, <<6211, 6211>>, <<6277, 6278>>,
     <<6313, 6313>>, <<6432, 6434>>, <<6439, 6440>>, <<6450, 6450>>, <<6457, 6459>>,
     <<6679, 6680>>, <<6683, 6683>>, <<6742, 6742>>, <<6744, 6750>>, <<6752, 6752>>,
     <<6754, 6754>>, <<6757, 6764>>, <<6771, 6780>>, <<6783, 6783>>, <<6823, 6823>>,
     <<6832, 6862>>, <<6912, 6915>>, <<6964, 6964>>, <<6966, 6970>>, <<6972, 6972>>,
     <<6978, 6978>>, <<7019, 7027>>, <<7040, 7041>>, <<7074, 7077>>, <<7080, 7081>>,
     <<7083, 7085>>, <<7142, 7142>>, <<7144, 7145>>, <<7149, 7149>>, <<7151, 7153>>,
     <<7212, 7219>>, <<7222, 7223>>, <<7288, 7293>>, <<7376, 7378>>, <<7380, 7392>>,
     <<7394, 7400>>, <<7405, 7405>>, <<7412, 7412>>, <<7416, 7417>>, <<7468, 7530>>,
     <<7544, 7544>>, <<7579, 7679>>, <<8125, 8125>>, <<8127, 8129>>, <<8141, 8143>>,
     <<8157, 8159>>, <<8173, 8175>>, <<8189, 8190>>, <<8203, 8207>>, <<8216, 8217>>,
     <<8228, 8228>>, <<8231, 8231>>, <<8234, 8238>>, <<8288, 8292>>, <<8294, 8303>>,
     <<8305, 8305>>, <<8319, 8319>>, <<8336, 8348>>, <<8400, 8432>>, <<11388, 11389>>,
     <<11503, 11505>>, <<11631, 11631>>, <<11647, 11647>>, <<11744, 11775>>, <<11823, 11823>>,
     <<12293, 12293>>, <<12330, 12333>>, <<12337, 12341>>, <<12347, 12347>>, <<12441, 12446>>,
     <<12540, 12542>>, <<40981, 40981>>, <<42232, 42237>>, <<42508, 42508>>, <<42607, 42610>>,
     <<42612, 42621>>, <<42623, 42623>>, <<42652, 42655>>, <<42736, 42737>>, <<42752, 42785>>,
     <<42864, 42864>>, <<42888, 42890>>, <<42994, 42996>>, <<43000, 43001>>, <<43010, 43010>>,
     <<43014, 43014>>, <<43019, 43019>>, <<43045, 43046>>, <<43052, 43052>>, <<43204, 43205>>,
     <<43232, 43249>>, <<43263, 43263>>, <<43302, 43309>>, <<43335, 43345>>, <<43392, 43394>>,
     <<43443, 43443>>, <<43446, 43449>>, <<43452, 43453>>, <<43471, 43471>>, <<43493, 43494>>,
     <<43561, 43566>>, <<43569, 43570>>, <<43573, 43574>>, <<43587, 43587>>, <<43596, 43596>>,
     <<43632, 43632>>, <<43644, 43644>>, <<43696, 43696>>, <<43698, 43700>>, <<43703, 43704>>,
     <<43710, 43711>>, <<43713, 43713>>, <<43741, 43741>>, <<43756, 43757>>, <<43763, 43764>>,
     <<43766, 43766>>, <<43867, 43871>>, <<43881, 43883>>, <<44005, 44005>>, <<44008, 44008>>,
     <<44013, 44013>>, <<64286, 64286>>, <<64434, 64450>>, <<65024, 65039>>, <<65043, 65043>>,
     <<65056, 65071>>, <<65106, 65106>>, <<65109, 65109>>, <<65279, 65279>>, <<65287, 65287>>,
     <<65294, 65294>>, <<65306, 65306>>, <<65342, 65342>>, <<65344, 65344>>, <<65392, 65392>>,
     <<65438, 65439>>, <<65507, 65507>>, <<65529, 65531>>, <<66045, 66045>>, <<66272, 66272>>,
     <<66422, 66426>>, <<67456, 67461>>, <<67463, 67504>>, <<67506, 67514>>, <<68097, 68099>>,
     <<68101, 68102>>, <<68108, 68111>>, <<68152, 68154>>, <<68159, 68159>>, <<68325, 68326>>,
     <<68900, 68903>>, <<69291, 69292>>, <<69446, 69456>>, <<69506, 69509>>, <<69633, 69633>>,
     <<69688, 69702>>, <<69744, 69744>>, <<69747, 69748>>, <<69759, 69761>>, <<69811, 69814>>,
     <<69817, 69818>>, <<69821, 69821>>, <<69826, 69826>>, <<69837, 69837>>, <<69888, 69890>>,
     <<69927, 69931>>, <<69933, 69940>>, <<70003, 70003>>, <<70016, 70017>>, <<70070, 70078>>,
     <<70089, 70092>>, <<70095, 70095>>, <<70191, 70193>>, <<70196, 70196>>, <<70198, 70199>>,
     <<70206, 70206>>, <<70367, 70367>>, <<70371, 70378>>, <<70400, 70401>>, <<70459, 70460>>,
     <<70464, 70464>>, <<70502, 70508>>, <<70512, 70516>>, <<70712, 70719>>, <<70722, 70724>>,
     <<70726, 70726>>, <<70750, 70750>>, <<70835, 70840>>, <<70842, 70842>>, <<70847, 70848>>,
     <<70850, 70851>>, <<71090, 71093>>, <<71100, 71101>>, <<71103, 71104>>, <<71132, 71133>>,
     <<71219, 71226>>, <<71229, 71229>>, <<71231, 71232>>, <<71339, 71339>>, <<71341, 71341>>,
     <<71344, 71349>>, <<71351, 71351>>, <<71453, 71455>>, <<71458, 71461>>, <<71463, 71467>>,
     <<71727, 71735>>, <<71737, 71738>>, <<71995, 71996>>, <<71998, 71998>>, <<72003, 72003>>,
     <<72148, 72151>>, <<72154, 72155>>, <<72160, 72160>>, <<72193, 72202>>, <<72243, 72248>>,
     <<72251, 72254>>, <<72263, 72263>>, <<72273, 72278>>, <<72281, 72283>>, <<72330, 72342>>,
     <<72344, 72345>>, <<72752, 72758>>, <<72760, 72765>>, <<72767, 72767>>, <<72850, 72871>>,
     <<72874, 72880>>, <<72882, 72883>>, <<72885, 72886>>, <<73009, 73014>>, <<73018, 73018>>,
     <<73020, 73021>>, <<73023, 73029>>, <<73031, 73031>>, <<73104, 73105>>, <<73109, 73109>>,
     <<73111, 73111>>, <<73459, 73460>>, <<78896, 78904>>, <<92912, 92916>>, <<92976, 92982>>,
     <<92992, 92995>>, <<94031, 94031>>, <<94095, 94111>>, <<94176, 94177>>, <<94179, 94180>>,
     <<110576, 110579>>, <<110581, 110587>>, <<110589, 110590>>, <<113821, 113822>>, <<113824, 113827>>,
     <<118528, 118573>>, <<118576, 118598>>, <<119143, 119145>>, <<119155, 119170>>, <<119173, 119179>>,
     <<119210, 119213>>, <<119362, 119364>>, <<121344, 121398>>, <<121403, 121452>>, <<121461, 121461>>,
     <<121476, 121476>>, <<121499, 121503>>, <<121505, 121519>>, <<122880, 122886>>, <<122888, 122904>>,
     <<122907, 122913>>, <<122915, 122916>>, <<122918, 122922>>, <<123184, 123197>>, <<123566, 123566>>,
     <<123628, 123631>>, <<125136, 125142>>, <<125252, 125259>>, <<127995, 127999>>, <<917505, 917505>>,
     <<917536, 917631>>, <<917760, 917999>> >>

in_ranges(c, ranges) ==
  \E i \in 1..Len(ranges) : ranges[i][1] <= c /\ c <= ranges[i][2]

\* Of a code point that is not case-ignorable: it is cased.
cased(c) == in_ranges(c, CasedRanges)

case_ignorable(c) == in_ranges(c, CaseIgnorableRanges)

\* str.lower() of one character: U+0130 becomes the two characters U+0069
\* U+0307, a character of LowerRanges its lower case, every other character
\* stays.
lower_char(c) ==
  LET hits == { i \in 1..Len(LowerRanges) :
                  /\ LowerRanges[i][1] <= c /\ c <= LowerRanges[i][2]
                  /\ (c - LowerRanges[i][1]) % LowerRanges[i][3] = 0 }
      r == LowerRanges[CHOOSE i \in hits : TRUE]
  IN  IF c = 304 THEN <<105, 775>>
      ELSE IF hits # {} THEN <<r[4] + (c - r[1])>>
      ELSE <<c>>

\* The capital sigma at s[i] ends a word: the nearest character before it
\* that is not case-ignorable is cased, and the nearest one after it, if
\* there is one, is not.
final_sigma(s, i) ==
  LET before == { j \in 1..(i - 1) : ~case_ignorable(s[j]) }
      after == { j \in (i + 1)..Len(s) : ~case_ignorable(s[j]) }
  IN  /\ before # {}
      /\ cased(s[CHOOSE j \in before : \A k \in before : k <= j])
      /\ \/ after = {}
         \/ ~cased(s[CHOOSE j \in after : \A k \in after : j <= k])

\* The lower case of s from its i-th character on: a capital sigma (U+03A3)
\* becomes the final sigma (U+03C2) at the end of a word and the small sigma
\* (U+03C3) elsewhere.
RECURSIVE lower_from(_, _)
lower_from(s, i) ==
  IF i > Len(s) THEN <<>>
  ELSE (IF s[i] = 931
          THEN (IF final_sigma(s, i) THEN <<962>> ELSE <<963>>)
          ELSE lower_char(s[i]))
         \o lower_from(s, i + 1)

\* str.lower(): an ASCII string is lowered letter by letter, any other
\* string by the rules above.
lower(s) ==
  IF \A i \in 1..Len(s) : s[i] < 128
    THEN [i \in 1..Len(s) |-> IF 65 <= s[i] /\ s[i] <= 90 THEN s[i] + 32 ELSE s[i]]
    ELSE lower_from(s, 1)

\* Line 215: the prefixes with more than one deployment, their deployments
\* in order.
RECURSIVE filtered_deployments(_)
filtered_deployments(by_prefix) ==
  IF by_prefix = <<>> THEN <<>>
  ELSE (IF Len(Head(by_prefix)) > 1 THEN Head(by_prefix) ELSE <<>>)
         \o filtered_deployments(Tail(by_prefix))

\* get_all_images: the images of the deployments that have one, and for each
\* image the last deployment that has it.
get_all_images(deployments, image_of) ==
  LET with_image == SelectSeq(deployments, LAMBDA d : image_of[d] # None)
      last(image) ==
        CHOOSE i \in 1..Len(with_image) :
          /\ image_of[with_image[i]] = <<image>>
          /\ \A j \in (i + 1)..Len(with_image) :
               image_of[with_image[j]] # <<image>>
  IN  [images |-> [i \in 1..Len(with_image) |-> image_of[with_image[i]][1]],
       names |-> [image \in { image_of[with_image[i]][1] :
                                i \in 1..Len(with_image) }
                    |-> with_image[last(image)]]]

\* removable_images(all_images, images_in_use, configured_images)
removable_images(images, images_in_use, configured_images) ==
  LET used_images_set ==
        { (images_in_use \o configured_images)[i] :
            i \in 1..Len(images_in_use \o configured_images) }
  IN  SelectSeq(images, LAMBDA image : image \notin used_images_set)

Targets == <<"hpa", "service", "deployment">>

\* delete_all: the three kubectl delete commands of each image, in order.
delete_all(images_to_delete, names) ==
  [k \in 1..(Len(Targets) * Len(images_to_delete)) |->
     << "kubectl", "delete", Targets[((k - 1) % Len(Targets)) + 1],
        names[images_to_delete[((k - 1) \div Len(Targets)) + 1]] >>]

\* Mutant: the deletion needs no approval.
approved_always(auto, text) == TRUE

\* Lines 253 and 261: the flag, or the text typed at the prompt.
approved(auto, text) == auto \/ (text # None /\ lower(text[1]) = YES)

\* exit(code), and the end of the script's last line
exit(code) == [code |-> code, exception |-> "None"]

\* An exception nothing catches: the interpreter prints it and exits with 1.
uncaught(exception) == [code |-> 1, exception |-> exception]

InitCleanup ==
  /\ c_pc = "env"
  /\ c_args \in CleanupArgs
  /\ cluster = <<>>
  /\ all_images = <<>>
  /\ image_to_deployment_name = <<>>
  /\ removable = <<>>
  /\ user_input = None
  /\ commands = <<>>
  /\ exit_code = None
  /\ PollIdle /\ SessionsIdle /\ UsersIdle /\ AdapterIdle

\* Lines 185-200: the arguments, the environment and the profile check; an
\* unset AWS_PROFILE makes the `in` of line 198 raise TypeError.
CleanupCheckEnv ==
  /\ c_pc = "env"
  /\ IF c_args.profile = None
       THEN c_pc' = "exit" /\ exit_code' = uncaught("TypeError")
       ELSE IF ~contains(c_args.profile[1], c_args.environment_name)
       THEN c_pc' = "exit" /\ exit_code' = exit(1)
       ELSE c_pc' = "gather" /\ UNCHANGED exit_code
  /\ UNCHANGED << c_args, cluster, all_images, image_to_deployment_name,
                  removable, user_input, commands >>
  /\ UNCHANGED << poll_vars, session_vars, user_vars, adapter_vars >>

\* Lines 203-250: the deployments, their images, the images in use, the
\* configured images and the removable ones.  If the database connection
\* fails, the finally block of get_all_images_in_use reads `connection`,
\* which was never assigned, and the script ends with UnboundLocalError; if
\* the query fails with OperationalError the list of images in use is empty.
CleanupGather ==
  /\ c_pc = "gather"
  /\ \E by_prefix \in DeploymentsByPrefix,
        image_of \in [Deployments -> {None} \cup { <<i>> : i \in Images }],
        db \in {"ok", "connect failed", "query failed"},
        in_use \in ImageLists,
        configured_images \in ImageLists :
       LET deployments == filtered_deployments(by_prefix)
           got == get_all_images(deployments, image_of)
           images_in_use == IF db = "ok" THEN in_use ELSE <<>>
           kubectl == << <<"kubectl", "get", "deployments">> >>
                        \o [i \in 1..Len(deployments) |->
                              <<"kubectl", "describe", "deployment",
                                deployments[i]>>]
       IN  /\ cluster' = [image_of |-> image_of, in_use |-> in_use,
                           configured_images |-> configured_images,
                           db |-> db]
           /\ all_images' = got.images
           /\ image_to_deployment_name' = got.names
           /\ IF db = "connect failed"
                THEN /\ commands' = commands \o kubectl \o << <<"db", "connect">> >>
                     /\ removable' = removable
                     /\ c_pc' = "exit"
                     /\ exit_code' = uncaught("UnboundLocalError")
                ELSE /\ commands' = commands \o kubectl
                                      \o << <<"db", "connect">>, <<"db", "query">>,
                                            <<"s3", "list">> >>
                     /\ removable' = removable_images(got.images,
                                                      configured_images,
                                                      images_in_use)
                     /\ c_pc' = "approve"
                     /\ exit_code' = exit_code
  /\ UNCHANGED << c_args, user_input >>
  /\ UNCHANGED << poll_vars, session_vars, user_vars, adapter_vars >>

\* Lines 253-264: delete_all if the flag is set or the prompt is answered
\* with approval; the prompt may also be closed, and input() raises EOFError.
CleanupApprove ==
  /\ c_pc = "approve"
  /\ \E text \in {None} \cup { <<t>> : t \in Inputs } :
       /\ user_input' = IF c_args.auto THEN None ELSE text
       /\ IF ~c_args.auto /\ text = None
            THEN /\ exit_code' = uncaught("EOFError")
                 /\ UNCHANGED commands
            ELSE /\ exit_code' = exit(0)
                 /\ commands' =
                      IF approved(c_args.auto, user_input')
                        THEN commands \o delete_all(removable,
                                                    image_to_deployment_name)
                        ELSE commands
  /\ c_pc' = "exit"
  /\ UNCHANGED << c_args, cluster, all_images, image_to_deployment_name,
                  removable >>
  /\ UNCHANGED << poll_vars, session_vars, user_vars, adapter_vars >>

NextCleanup ==
  \/ CleanupCheckEnv
  \/ CleanupGather
  \/ CleanupApprove

SpecCleanup == InitCleanup /\ [][NextCleanup]_vars

\* ------------------------------------------------------ load test tasks
\* A task whose first request has returned calls wait_for_job_completion.
\* The async tasks of the two locustfiles, and the helper _async_request.
LocustfileTasks ==
  { "HarmonyUatUser._netcdf_to_zarr_10_granules",
    "HarmonyUatUser._chain_swot_repr_europe_to_zarr",
    "HarmonyUatUser._netcdf_to_zarr_large_granule",
    "ProdHarmonyUser.podaac_l2ss_async",
    "ProdHarmonyUser.podaac_l2ss_async_spatial_temporal",
    "ProdHarmonyUser.netcdf_to_zarr_single_granule",
    "ProdHarmonyUser.netcdf_to_zarr_temporal" }

Tasks == LocustfileTasks \cup {"BaseHarmonyUser._async_request"}

\* The arguments the task passes, besides self.
call_args(t) ==
  IF t \in LocustfileTasks
    THEN <<"response">>
    ELSE <<"response", "full_name", "start_time">>

\* def wait_for_job_completion(self, response, name, start_time)
wait_for_job_completion_params == <<"response", "name", "start_time">>

\* Positional arguments bind to parameters without defaults only if there
\* are as many; otherwise the call raises TypeError before the body runs.
binds(args, params) == Len(args) = Len(params)

InitTask ==
  /\ task \in Tasks
  /\ call = "none"
  /\ show_results = TRUE
  /\ status_code = OK
  /\ \E d \in InitialDocs : response = [id |-> 0, content |-> <<d>>]
  /\ missing = {}
  /\ displayed_link_count = 0
  /\ waiting_message_printed = FALSE
  /\ status = None
  /\ pc = "task"
  /\ dispatched = <<>>
  /\ extractions = 0
  /\ fetches = 0
  /\ sleeps = 0
  /\ outcome = "none"
  /\ returned = None
  /\ printed_complete = FALSE
  /\ stac_checked = FALSE
  /\ events = <<>>
  /\ SessionsIdle /\ UsersIdle /\ CleanupIdle /\ AdapterIdle

\* The call of wait_for_job_completion at the end of the task.
TaskCall ==
  /\ pc = "task"
  /\ IF binds(call_args(task), wait_for_job_completion_params)
       THEN /\ call' = "wait_for_job_completion"
            /\ pc' = "start"
            /\ outcome' = outcome
       ELSE /\ Raise("TypeError")
            /\ call' = call
  /\ UNCHANGED << task, show_results, status_code, response, missing,
                  displayed_link_count, waiting_message_printed, status,
                  dispatched, extractions, fetches, sleeps, returned,
                  printed_complete, stac_checked, events >>
  /\ UNCHANGED << session_vars, user_vars, cleanup_vars, adapter_vars >>

NextTask ==
  \/ TaskCall
  \/ WaitStart
  \/ WaitPoll
  \/ WaitPollError
  \/ WaitFinish

SpecTask == InitTask /\ [][NextTask]_vars

\* ------------------------------------------- ExampleAdapter.process_item
\* One call of process_item.  An item is [id, assets], its assets a sequence
\* of [key, href, roles] in the order of the dictionary; roles is None or
\* <<list>>.  Items are objects: `objects` maps a reference to the item it
\* refers to, and `item` and `result` hold references.  A path is
\* <<directory>> or <<directory, file>>.
AssetKeys == {"data", "browse"}

RoleLists == {None, <<<<>>>>, <<<<"data">>>>, <<<<"metadata">>>>}

InputAssets ==
  [key : AssetKeys, href : {<<"s3">>}, roles : RoleLists]

\* The items process_item may be given: up to two assets, no key twice.
Items ==
  [id : {"item1"},
   assets : { a \in UNION { [1..n -> InputAssets] : n \in 0..2 } :
                \A i, j \in 1..Len(a) : a[i].key = a[j].key => i = j }]

TempNames == {"tmp1", "tmp2"}

\* What the temporary directory of another call may look like.
OtherWork == { {}, {<<"tmp1">>, <<"tmp1", "tmp.txt">>} }

\* What clone() of the item handed to process_item returns: the method is
\* the argument's, not the adapter's.  A pystac.Item returns a new object, a
\* copy of the item; an argument of another class may return the item itself.
Clones == {"copy", "self"}

\* item.clone(): the reference the method returns.
clone(ref) == IF a_in.clone = "copy" THEN <<"clone of", ref>> ELSE ref

\* mkdtemp(): a directory that did not exist.
mkdtemp(paths) == CHOOSE name \in TempNames : <<name>> \notin paths

\* v.roles or []
roles_or_empty(asset) == IF asset.roles = None THEN <<>> ELSE asset.roles[1]

\* 'data' in (v.roles or [])
has_data_role(asset) ==
  \E i \in 1..Len(roles_or_empty(asset)) : roles_or_empty(asset)[i] = "data"

\* Mutant: the directory is left in place.
rmtree_nothing(paths, dir) == paths

\* shutil.rmtree(dir): the directory and what is in it are gone.
rmtree(paths, dir) == { p \in paths : p[1] # dir }

\* Asset(url, title=output_filename, media_type='text/plain', roles=['data'])
\* under the key 'data', for the URL stage returns for the input href.
staged_asset(href) ==
  [key |-> "data", href |-> <<"staged">> \o href, roles |-> <<<<"data">>>>]

InitAdapter ==
  /\ a_pc = "begin"
  /\ item = <<"item">>
  /\ \E i \in Items : objects = [ref \in {item} |-> i]
  /\ fs \in OtherWork
  /\ \E c \in Clones : a_in = [item |-> objects[item], fs |-> fs, clone |-> c]
  /\ result = None
  /\ workdir = None
  /\ a_exc = "None"
  /\ PollIdle /\ SessionsIdle /\ UsersIdle /\ CleanupIdle

\* Lines 42-46: the clone without assets and the temporary directory.
ProcessItemBegin ==
  /\ a_pc = "begin"
  /\ result' = <<clone(item)>>
  /\ objects' = [ref \in DOMAIN objects \cup {result'[1]} |->
                   IF ref = result'[1]
                     THEN [objects[item] EXCEPT !.assets = <<>>]
                     ELSE objects[ref]]
  /\ workdir' = <<mkdtemp(fs)>>
  /\ fs' = fs \cup {workdir'}
  /\ a_pc' = "download"
  /\ UNCHANGED << a_in, item, a_exc >>
  /\ UNCHANGED << poll_vars, session_vars, user_vars, cleanup_vars >>

\* Lines 49-50: the first asset with the role 'data' (StopIteration if there
\* is none) and its download, which returns or raises; a download that
\* raises may leave a file behind.
ProcessItemDownload ==
  /\ a_pc = "download"
  /\ IF SelectSeq(objects[item].assets, has_data_role) = <<>>
       THEN /\ a_exc' = "StopIteration"
            /\ a_pc' = "finally"
            /\ UNCHANGED fs
       ELSE \E returns \in BOOLEAN, written \in BOOLEAN :
              /\ fs' = IF returns \/ written
                         THEN fs \cup {<<workdir[1], "input">>}
                         ELSE fs
              /\ a_exc' = IF returns THEN a_exc ELSE "DownloadError"
              /\ a_pc' = IF returns THEN "work" ELSE "finally"
  /\ UNCHANGED << a_in, objects, item, result, workdir >>
  /\ UNCHANGED << poll_vars, session_vars, user_vars, cleanup_vars >>

\* Lines 53-61: the message fields are marked and the input is copied to
\* tmp.txt; the copy returns or raises.
ProcessItemWork ==
  /\ a_pc = "work"
  /\ \E returns \in BOOLEAN, written \in BOOLEAN :
       /\ fs' = IF returns \/ written
                  THEN fs \cup {<<workdir[1], "tmp.txt">>}
                  ELSE fs
       /\ a_exc' = IF returns THEN a_exc ELSE "OSError"
       /\ a_pc' = IF returns THEN "stage" ELSE "finally"
  /\ UNCHANGED << a_in, objects, item, result, workdir >>
  /\ UNCHANGED << poll_vars, session_vars, user_vars, cleanup_vars >>

\* Lines 64-75: the file is staged, which returns a URL or raises; then the
\* asset is set and the return statement is reached.
ProcessItemStage ==
  /\ a_pc = "stage"
  /\ \E returns \in BOOLEAN :
       IF returns
         THEN /\ objects' =
                   [objects EXCEPT ![result[1]].assets =
                      <<staged_asset(
                          SelectSeq(objects[item].assets, has_data_role)[1].href)>>]
              /\ UNCHANGED a_exc
         ELSE /\ a_exc' = "StageError"
              /\ UNCHANGED objects
  /\ a_pc' = "finally"
  /\ UNCHANGED << a_in, item, result, workdir, fs >>
  /\ UNCHANGED << poll_vars, session_vars, user_vars, cleanup_vars >>

\* Lines 76-78: the finally block; then the call returns `result` or the
\* exception goes on to the caller.
ProcessItemFinally ==
  /\ a_pc = "finally"
  /\ fs' = rmtree(fs, workdir[1])
  /\ a_pc' = "done"
  /\ UNCHANGED << a_in, objects, item, result, workdir, a_exc >>
  /\ UNCHANGED << poll_vars, session_vars, user_vars, cleanup_vars >>

NextAdapter ==
  \/ ProcessItemBegin
  \/ ProcessItemDownload
  \/ ProcessItemWork
  \/ ProcessItemStage
  \/ ProcessItemFinally

SpecAdapter == InitAdapter /\ [][NextAdapter]_vars

\* ------------------------------------------------------------ properties
\* The properties read the documents with definitions of their own, so that
\* they do not depend on the operators they are about.

IsDataLink(link) == "rel" \notin DOMAIN link \/ link.rel = "data"

IsHttp(href) ==
  /\ Len(href) >= 4
  /\ href[1] = "h" /\ href[2] = "t" /\ href[3] = "t" /\ href[4] = "p"

RECURSIVE DataHrefs(_)
DataHrefs(links) ==
  IF links = <<>> THEN <<>>
  ELSE (IF IsDataLink(Head(links)) THEN <<Head(links).href>> ELSE <<>>)
         \o DataHrefs(Tail(links))

RECURSIVE HttpOnly(_)
HttpOnly(hrefs) ==
  IF hrefs = <<>> THEN <<>>
  ELSE (IF IsHttp(Head(hrefs)) THEN <<Head(hrefs)>> ELSE <<>>)
         \o HttpOnly(Tail(hrefs))

Hrefs(links) == [i \in 1..Len(links) |-> links[i].href]

IsPrefix(s, t) == Len(s) <= Len(t) /\ SubSeq(t, 1, Len(s)) = s

RECURSIVE IsSubseq(_, _)
IsSubseq(s, t) ==
  IF s = <<>> THEN TRUE
  ELSE IF t = <<>> THEN FALSE
  ELSE IF Head(s) = Head(t) THEN IsSubseq(Tail(s), Tail(t))
  ELSE IsSubseq(s, Tail(t))

Range(s) == { s[i] : i \in 1..Len(s) }

\* A notebook call that shows results and got past check_status.
Showing == call \in Notebook /\ show_results /\ status_code = OK

\* C1, as stated: when a showing notebook call has ended, every data link of
\* the final document has been dispatched exactly once.
C1_EveryDataLinkOnce ==
  (Showing /\ pc = "done") => dispatched = DataHrefs(body.links)

\* C1, amended: at every point of a showing notebook call the dispatched
\* hrefs are a prefix of the http data links of the current document (none
\* twice, none that is no http data link), and when the call has ended they
\* are all of them (none missed).
C1_HttpDataLinksOnce ==
  Showing =>
    /\ IsPrefix(dispatched, HttpOnly(DataHrefs(body.links)))
    /\ pc = "done" => dispatched = HttpOnly(DataHrefs(body.links))

C1_Witness ==
  /\ Showing /\ pc = "done" /\ fetches = 2 /\ extractions = 2
  /\ Len(dispatched) = 2
  /\ \E i \in 1..Len(body.links) :
       IsDataLink(body.links[i]) /\ ~IsHttp(body.links[i].href)

\* C2: the dispatched links are, in every state of a poll call, a
\* subsequence of the links of the current document, in the same order.
C2_OrderPreserved ==
  call \in Notebook => IsSubseq(dispatched, Hrefs(body.links))

C2_Witness ==
  /\ call \in Notebook /\ pc = "done" /\ extractions >= 2
  /\ Len(dispatched) = 2 /\ dispatched[1] # dispatched[2]
  /\ Len(body.links) = 3
  /\ ~IsDataLink(body.links[2])

\* C3: a notebook call that ends on a job with status "failed" ends with an
\* assertion error; it does not return, does not run the STAC check and does
\* not print the completion message.
C3_FailedIsSignalled ==
  (call \in Notebook /\ pc = "done" /\ body.status = "failed") =>
    /\ outcome = "AssertionError"
    /\ returned = None
    /\ ~stac_checked
    /\ ~printed_complete

C3_Witness ==
  /\ call = "show_async" /\ pc = "done" /\ body.status = "failed"
  /\ fetches = 2 /\ status_code = OK /\ outcome = "AssertionError"

\* C4: a poll call that ends on a job with status "canceled" signals the
\* failure: a notebook call raises before the STAC check and the completion
\* message, wait_for_job_completion fires its event with an exception.
C4_CanceledIsSignalled ==
  /\ (call \in Notebook /\ pc = "done" /\ body.status = "canceled") =>
       /\ outcome # "returned"
       /\ ~stac_checked
       /\ ~printed_complete
  /\ (call = "wait_for_job_completion" /\ pc = "done"
        /\ body.status = "canceled" /\ events # <<>>) =>
       events[Len(events)] # "None"

\* C5, as stated: every notebook call that ends on a successful job returns
\* the response of its last fetch.
C5_SuccessReturnsLastResponse ==
  (call \in Notebook /\ status_code = OK /\ pc = "done"
     /\ body.status = "successful") =>
    /\ outcome = "returned"
    /\ returned = <<response>>

\* C5, amended: a notebook call that ends on a successful job either raises
\* in check_stac or returns; show_async then returns the response of its
\* last fetch, which carries the status "successful", and
\* show_async_condensed returns no value.
C5_ShowAsyncReturnsLastResponse ==
  (call \in Notebook /\ status_code = OK /\ pc = "done"
     /\ body.status = "successful") =>
    /\ stac_checked
    /\ outcome \in {"returned", "KeyError", "UnboundLocalError", "AssertionError",
                    "CatalogError"}
    /\ outcome = "returned" <=> printed_complete
    /\ (outcome = "returned" /\ call = "show_async") =>
         /\ Len(returned) = 1
         /\ returned[1].id = fetches
         /\ json(returned[1]).status = "successful"
         /\ returned[1] = response
    /\ (outcome # "returned" \/ call = "show_async_condensed") =>
         returned = None

C5_Witness ==
  /\ call = "show_async" /\ pc = "done" /\ outcome = "returned"
  /\ fetches = 2 /\ Len(returned) = 1 /\ returned[1].id = 2

\* C6: once the document at hand has a terminal status no step fetches the
\* status again; so a call whose first document is terminal fetches nothing.
C6_NoFetchAfterTerminal ==
  [][body.status \in {"successful", "failed", "canceled"}
       => fetches' = fetches]_vars

C6_Witness ==
  /\ pc = "done" /\ response.id = 1 /\ fetches = 1
  /\ decodes(response) /\ body.status = "canceled"

\* C7: a notebook iteration whose new document has the progress and the
\* status of the one before extracts nothing, dispatches nothing and leaves
\* the counter as it was.
C7_UnchangedIsNoOp ==
  [][(call \in Notebook /\ fetches' = fetches + 1
        /\ body'.progress = body.progress /\ body'.status = body.status)
       => /\ extractions' = extractions
          /\ dispatched' = dispatched
          /\ displayed_link_count' = displayed_link_count]_vars

C7_Witness ==
  /\ call = "show_async" /\ pc = "loop" /\ fetches = 1 /\ extractions = 1
  /\ waiting_message_printed
  /\ Len(HttpOnly(DataHrefs(body.links))) > Len(dispatched)

\* C8, as stated: after each extraction the counter is the length of the
\* whole links array.
C8_CounterIsRawLength ==
  [][extractions' = extractions + 1
       => displayed_link_count' = Len(body'.links)]_vars

\* C8, amended: after each extraction the counter is the number of data
\* links of the current document, and the extraction dispatches the http
\* links among the data links from that index of the filtered list onward.
C8_CounterIsDataLength ==
  [][extractions' = extractions + 1
       => /\ displayed_link_count' = Len(DataHrefs(body'.links))
          /\ dispatched' = dispatched \o
               HttpOnly(SubSeq(DataHrefs(body'.links),
                               displayed_link_count + 1,
                               Len(DataHrefs(body'.links))))]_vars

C8_Witness ==
  /\ call \in Notebook /\ extractions = 2
  /\ displayed_link_count = 2 /\ Len(body.links) = 3
  /\ ~IsDataLink(body.links[1])

\* C9: the counter never exceeds the number of links of the latest document
\* and never decreases.
C9_CounterBounded ==
  [][/\ displayed_link_count' >= displayed_link_count
     /\ decodes(response') => displayed_link_count' <= Len(body'.links)]_vars

C9_Witness ==
  /\ call \in Notebook /\ extractions = 3 /\ fetches = 2
  /\ displayed_link_count = 2 /\ Len(body.links) = 3

\* C10: every dispatched href is the href of a data link of the document,
\* and the href of a link with another rel is never dispatched.
C10_OnlyDataLinks ==
  decodes(response) =>
    /\ \A i \in 1..Len(dispatched) :
         \E j \in 1..Len(body.links) :
           IsDataLink(body.links[j]) /\ body.links[j].href = dispatched[i]
    /\ \A j \in 1..Len(body.links) :
         ~IsDataLink(body.links[j]) => body.links[j].href \notin Range(dispatched)

C10_Witness ==
  /\ call \in Notebook /\ pc = "done" /\ Len(dispatched) = 1
  /\ Len(body.links) = 3
  /\ ~IsDataLink(body.links[1]) /\ IsDataLink(body.links[2])
  /\ ~IsDataLink(body.links[3])

\* C11: in wait_for_job_completion an exception of a status fetch does not
\* end the poll: a call that has ended has seen a terminal status and has
\* fired no event for an exception of its error handler.
C11_FetchErrorsRetried ==
  (call = "wait_for_job_completion" /\ pc = "done") =>
    /\ status[1] \in {"successful", "failed", "canceled"}
    /\ \A i \in 1..Len(events) : events[i] # "AttributeError"

\* C12: every status fetch of a poll call is preceded by a sleep of its own,
\* so a call has slept as often as it has fetched.
C12_SleepBeforeEachFetch == sleeps = fetches

\* C18, as stated: the first document and every document that differs in
\* progress or status from the one before has all its data links dispatched
\* in the step that fetched it.
C18_DataLinksSurfaced ==
  [][(Showing /\ extractions' = extractions + 1)
       => \A i \in 1..Len(body'.links) :
            IsDataLink(body'.links[i])
              => body'.links[i].href \in Range(dispatched')]_vars

\* C18, amended: the first document and every document that differs in
\* progress or status from the one before has, once the step that fetched it
\* is over, all its http data links dispatched, also those that arrived in
\* unchanged iterations before; so has the document a call ends on.
C18_HttpDataLinksSurfaced ==
  [][Showing =>
       /\ (pc = "start" /\ pc' = "loop")
            => dispatched' = HttpOnly(DataHrefs(body'.links))
       /\ (fetches' = fetches + 1
             /\ (body'.progress # body.progress \/ body'.status # body.status))
            => dispatched' = HttpOnly(DataHrefs(body'.links))
       /\ pc' = "done"
            => dispatched' = HttpOnly(DataHrefs(body'.links))]_vars

C18_Witness ==
  /\ call = "show_async_condensed" /\ show_results /\ pc = "done"
  /\ fetches = 2 /\ extractions = 2
  /\ body.progress = 0
  /\ Len(dispatched) = 2
  /\ Len(HttpOnly(DataHrefs(body.links))) = 2

\* C19, as stated: every call of wait_for_job_completion that has ended
\* fired exactly one 'async_job' event, whose exception is None exactly if
\* the final status is "successful", and returned the last observed status.
C19_OneEventPerCall ==
  (call = "wait_for_job_completion" /\ pc = "done") =>
    /\ Len(events) = 1
    /\ events[1] = "None" <=> status[1] = "successful"
    /\ returned = <<status[1]>>

\* C19, amended: a call whose initial document has no status raises KeyError
\* at line 47 and fires no event; every other call that has ended fired
\* exactly one event, with no exception exactly if the final status is
\* "successful", and returned the last status it read.
C19_OneEventOnceStatusRead ==
  (call = "wait_for_job_completion" /\ pc = "done") =>
    IF outcome = "KeyError"
      THEN /\ "status" \in missing /\ response.id = 0
           /\ events = <<>> /\ returned = None
      ELSE /\ outcome = "returned"
           /\ Len(events) = 1
           /\ events[1] = "None" <=> status[1] = "successful"
           /\ status[1] \in FailedStatusesWait => events[1] = "AssertionError"
           /\ returned = <<status[1]>>
           /\ ("status" \notin missing /\ response.id = fetches
                 /\ decodes(response))
                => status[1] = body.status

C19_Witness ==
  /\ call = "wait_for_job_completion" /\ pc = "done"
  /\ fetches = 2
  /\ status = <<"canceled">>
  /\ events = <<"AssertionError">>
  /\ returned = <<"canceled">>

\* C16, as stated: in every variant, a step that reads a status document
\* lacking "status" or "links" ends the call with the KeyError, and no fetch
\* follows such a document.
C16_MalformedPropagated ==
  [][/\ (missing' # {} /\ status_code = OK
           /\ (pc = "start" \/ response' # response))
          => (pc' = "done" /\ outcome' = "KeyError")
     /\ missing # {} => fetches' = fetches]_vars

\* C16, amended: no fetch follows a document lacking "status": the notebook
\* functions raise KeyError (show_async at the latest at its next loop test),
\* wait_for_job_completion raises KeyError for its initial document and for
\* a fetched one fires the event with an exception and returns the previous
\* status.  No link of a document lacking "links" is extracted or shown, and
\* check_stac raises KeyError on it.
C16_MissingStatusEndsCall ==
  [][/\ "status" \in missing => fetches' = fetches
     /\ ("status" \in missing /\ pc = "loop")
          => (pc' = "done" /\ outcome' = "KeyError")
     /\ ("status" \in missing' /\ status_code = OK /\ pc' = "done"
           /\ (pc = "start" \/ response' # response))
          => IF call \in Notebook \/ pc = "start"
               THEN outcome' = "KeyError" /\ events' = events
               ELSE /\ events' = Append(events, "AttributeError")
                    /\ returned' = <<status[1]>>
     /\ ("links" \in missing' /\ status_code = OK /\ call \in Notebook)
          => /\ extractions' = extractions
             /\ dispatched' = dispatched
             /\ stac_checked' => outcome' = "KeyError"]_vars

C16_Witness ==
  /\ call = "show_async" /\ pc = "done" /\ outcome = "KeyError"
  /\ missing = {"status"}
  /\ fetches = 1 /\ extractions = 2

\* C13: when the job ends and no fetch raises, every poll call ends, either
\* returning or raising; until the status it reads is terminal a call stays
\* in its loop and every step it takes is a fetch.
C13_Terminates ==
  /\ <>(pc = "done" /\ outcome # "none")
  /\ [][(pc = "loop" /\ body.status \notin ServerTerminal)
          => (pc' = "loop" /\ fetches' = fetches + 1)]_vars

C13_Witness ==
  /\ call = "show_async" /\ pc = "done" /\ outcome = "returned"
  /\ fetches = MaxFetches
  /\ body.status = "successful"
  /\ returned = <<response>>

\* The http data links of the document call s holds.
OwnHttpLinks(s) == HttpOnly(DataHrefs(json(s_response[s]).links))

\* The document of call s has a link titled 'STAC catalog'.
HasCatalog(s) ==
  \E i \in 1..Len(json(s_response[s]).links) :
    json(s_response[s]).links[i].title = "STAC catalog"

\* The href of the last link titled 'STAC catalog' of the document of call s.
LastCatalogHref(s) ==
  LET links == json(s_response[s]).links
      last == CHOOSE i \in 1..Len(links) :
                /\ links[i].title = "STAC catalog"
                /\ \A j \in (i + 1)..Len(links) : links[j].title # "STAC catalog"
  IN  links[last].href

\* C14: with two show_async calls interleaved at every point where the code
\* blocks, and interrupted at any of them:
\* - a step that is not a step of call s changes neither the counter of s
\*   nor what s has shown, holds, returned or raised;
\* - what a call has shown is always a prefix, in order and each link once,
\*   of the http data links of its own job's document, and outside
\*   show_response it is exactly the http links among the first `counter`
\*   data links of that document;
\* - a call, the first of a job or one that follows an interrupted call,
\*   enters its first show_response with the counter 0 and every data link
\*   of the document it is handed, and every show_response that returns has
\*   shown every http data link of its document;
\* - a call that has ended has shown all http data links of its last
\*   document, and its outcome is the one that document alone decides:
\*   AssertionError if the job failed, otherwise UnboundLocalError if it
\*   has no catalog link, AssertionError if the href of that link is
\*   empty, otherwise what the catalog decides: the response is
\*   returned, or check_stac raises.
C14_SessionsIndependent ==
  /\ [][\A s \in Sessions :
          (s_pc'[s] = s_pc[s] /\ s_new_links'[s] = s_new_links[s]) =>
            /\ link_counts'[s] = link_counts[s]
            /\ s_dispatched'[s] = s_dispatched[s]
            /\ s_response'[s] = s_response[s]
            /\ s_outcome'[s] = s_outcome[s]
            /\ s_returned'[s] = s_returned[s]]_vars
  /\ [](\A s \in Sessions :
          /\ s_pc[s] # "start" => IsPrefix(s_dispatched[s], OwnHttpLinks(s))
          /\ s_pc[s] \in {"loop", "sleep", "fetch", "done"} =>
               /\ link_counts[s] <= Len(DataHrefs(json(s_response[s]).links))
               /\ s_dispatched[s] =
                    HttpOnly(SubSeq(DataHrefs(json(s_response[s]).links),
                                    1, link_counts[s]))
          /\ s_pc[s] = "done" =>
               /\ s_dispatched[s] = OwnHttpLinks(s)
               /\ IF json(s_response[s]).status = "failed"
                    THEN s_outcome[s] = "AssertionError"
                  ELSE IF ~HasCatalog(s)
                    THEN s_outcome[s] = "UnboundLocalError"
                  ELSE IF LastCatalogHref(s) = <<>>
                    THEN s_outcome[s] = "AssertionError"
                  ELSE s_outcome[s] \in {"returned", "AssertionError",
                                         "CatalogError"}
               /\ s_outcome[s] = "returned" <=> s_returned[s] = <<s_response[s]>>
               /\ s_outcome[s] # "returned" => s_returned[s] = None)
  /\ [][\A s \in Sessions :
          /\ (s_pc[s] = "start" /\ s_pc'[s] # "start") =>
               /\ link_counts'[s] = 0
               /\ s_new_links'[s] = DataHrefs(json(s_response[s]).links)
               /\ s_dispatched'[s] = <<>>
          /\ (s_pc[s] = "show" /\ s_pc'[s] = "loop") =>
               /\ link_counts'[s] = Len(DataHrefs(json(s_response[s]).links))
               /\ s_dispatched'[s] = OwnHttpLinks(s)]_vars

C14_Witness ==
  /\ \A s \in Sessions : s_pc[s] = "done"
  /\ s_restarted["s1"] = "show" /\ s_restarted["s2"] = "no"
  /\ s_dispatched["s1"] = <<HTTP \o <<"a", "1">>, HTTP \o <<"a", "2">>>>
  /\ Len(s_dispatched["s2"]) = 2
  /\ link_counts["s1"] = 3 /\ link_counts["s2"] = 2
  /\ s_outcome["s1"] = "returned" /\ s_outcome["s2"] = "AssertionError"

\* The users whose set-up request returned.
SetUpDone == { u \in Range(setup_requests) : u \notin u_raised }

\* C15: in every interleaving at most one user's set-up request returns, and
\* if none raises at most one is sent; every user that left on_start without
\* sending it uses the cookie jar of the user whose request returned, which
\* is the shared session_cookies.
C15_AtMostOneSetUp ==
  /\ Cardinality(SetUpDone) <= 1
  /\ u_raised = {} => Len(setup_requests) <= 1
  /\ \A i, j \in 1..Len(setup_requests) :
       setup_requests[i] = setup_requests[j] => i = j
  /\ \A u \in Users :
       (u_pc[u] = "done" /\ u \notin Range(setup_requests)) =>
         /\ session_cookies # None
         /\ client_cookies[u] = session_cookies[1]
         /\ SetUpDone = {session_cookies[1]}

C15_Witness ==
  /\ \A u \in Users : u_pc[u] = "done"
  /\ setup_requests = <<"u2">>
  /\ session_cookies = <<"u2">>
  /\ \A u \in Users : client_cookies[u] = "u2"

\* C20: at most one user is between acquire and release and it is the one
\* the lock records; the lock is freed only by its holder, in line 26, also
\* after the set-up request raised; under fair scheduling every user that
\* waits for the lock gets through on_start, and the lock is then free.
C20_MutexReleased ==
  /\ [](/\ Cardinality({ u \in Users : u_pc[u] \in CriticalSection }) <= 1
        /\ \A u \in Users : u_pc[u] \in CriticalSection <=> mutex = u)
  /\ [][mutex # mutex' =>
          \/ mutex = "free" /\ u_pc[mutex'] = "acquire"
          \/ mutex' = "free" /\ u_pc[mutex] = "release"
                /\ u_pc'[mutex] = "done"]_vars
  /\ \A u \in Users : (u_pc[u] = "acquire") ~> (u_pc[u] = "done")
  /\ []((\A u \in Users : u_pc[u] \in {"idle", "done"}) => mutex = "free")

C20_Witness ==
  /\ \A u \in Users : u_pc[u] = "done"
  /\ mutex = "free"
  /\ setup_requests = <<"u1", "u3">>
  /\ u_raised = {"u1"}
  /\ client_cookies["u2"] = "u3"

\* The kubectl delete commands the script has run.
Deletes == SelectSeq(commands, LAMBDA c : c[1] = "kubectl" /\ c[2] = "delete")

\* C17, as stated: a kubectl delete is run only if --auto_approve is set or
\* the text typed at the prompt is 'yes'.
C17_OnlyYesApproves ==
  Deletes # <<>> => (c_args.auto \/ user_input = <<YES>>)

\* The text is the three letters y, e, s, each in either case (as code
\* points: y 121, Y 89, e 101, E 69, s 115, S 83).
YesInAnyCase(text) ==
  /\ Len(text) = 3
  /\ text[1] \in {121, 89}
  /\ text[2] \in {101, 69}
  /\ text[3] \in {115, 83}

\* C17, amended: a kubectl delete is run only if --auto_approve is set or
\* the text typed at the prompt is 'yes' in any letter case, and such a text
\* does confirm; after any other text the script has deleted nothing and
\* exits with code 0.
C17_OnlyYesAnyCaseApproves ==
  /\ Deletes # <<>> =>
       (c_args.auto \/ (user_input # None /\ YesInAnyCase(user_input[1])))
  /\ (c_pc = "exit" /\ user_input # None /\ ~YesInAnyCase(user_input[1]))
       => (Deletes = <<>> /\ exit_code = exit(0))
  /\ (c_pc = "exit" /\ user_input # None /\ YesInAnyCase(user_input[1])
        /\ removable # <<>>)
       => Deletes # <<>>

C17_Witness ==
  /\ c_pc = "exit" /\ ~c_args.auto
  /\ user_input = << <<89, 101, 83>> >>
  /\ removable = <<"i1">>
  /\ Deletes = << <<"kubectl", "delete", "hpa", "p-2">>,
                  <<"kubectl", "delete", "service", "p-2">>,
                  <<"kubectl", "delete", "deployment", "p-2">> >>

\* The images that must stay: those of jobs in a non-terminal state and
\* those configured in the bucket.
LiveImages == Range(cluster.in_use) \cup Range(cluster.configured_images)

\* C21: every deployment the script runs delete commands for has an image
\* that no unfinished job uses and the bucket does not list, and
\* removable_images is all_images without those images, in order, also when
\* reading the images in use fails.
C21_NoLiveDeploymentDeleted ==
  (c_pc \in {"approve", "exit"} /\ cluster # <<>>) =>
    /\ \A i \in 1..Len(Deletes) :
         cluster.image_of[Deletes[i][4]][1] \notin LiveImages
    /\ cluster.db # "connect failed" =>
         removable = SelectSeq(all_images, LAMBDA image : image \notin LiveImages)

\* Some run of consecutive characters of s is sub.
Within(sub, s) ==
  \E i \in 1..(Len(s) + 1), j \in 0..Len(s) : SubSeq(s, i, j) = sub

\* The environment name is not contained in AWS_PROFILE (or that is unset).
Mismatch ==
  c_args.profile = None \/ ~Within(c_args.environment_name, c_args.profile[1])

\* C22: if the environment name is not contained in AWS_PROFILE the script
\* never gets past its check: it has run no kubectl command, no database
\* query, no S3 read and no deletion, and it ends with exit status 1.
C22_EnvironmentGuard ==
  Mismatch =>
    /\ c_pc \in {"env", "exit"}
    /\ commands = <<>>
    /\ cluster = <<>>
    /\ c_pc = "exit" => exit_code.code = 1

C22_Witness ==
  /\ c_pc = "exit"
  /\ c_args.environment_name = UAT
  /\ c_args.profile = <<SIT>>
  /\ exit_code = exit(1)
  /\ commands = <<>>

\* C23: a call of show_async or show_async_condensed whose initial response
\* has a status code other than 200 does nothing but raise AssertionError:
\* no status fetch, no sleep, no link extracted or shown, no loop iteration,
\* whatever the document of the response holds or lacks.
C23_StatusCheckFirst ==
  (call \in Notebook /\ status_code # OK) =>
    /\ pc \in {"start", "done"}
    /\ fetches = 0 /\ sleeps = 0
    /\ extractions = 0 /\ dispatched = <<>>
    /\ ~stac_checked /\ ~printed_complete
    /\ pc = "done" => (outcome = "AssertionError" /\ returned = None)

C23_Witness ==
  /\ call = "show_async_condensed" /\ show_results
  /\ status_code = 500
  /\ pc = "done" /\ outcome = "AssertionError"
  /\ missing = {"status", "links"}
  /\ Len(HttpOnly(DataHrefs(body.links))) = 2

\* C24: in a showing notebook call every href shown starts with 'http', and
\* what has been shown is exactly the http hrefs among the data links the
\* counter has passed: a data link that is no http URL is counted, never
\* shown, and shifts no other link.
C24_NonHttpCountedNotShown ==
  (Showing /\ pc # "start" /\ extractions > 0) =>
    /\ \A i \in 1..Len(dispatched) : IsHttp(dispatched[i])
    /\ displayed_link_count <= Len(DataHrefs(body.links))
    /\ dispatched =
         HttpOnly(SubSeq(DataHrefs(body.links), 1, displayed_link_count))

C24_Witness ==
  /\ call = "show_async" /\ pc = "done"
  /\ extractions = 3
  /\ displayed_link_count = 3
  /\ Len(dispatched) = 2
  /\ Len(DataHrefs(body.links)) = 3
  /\ ~IsHttp(DataHrefs(body.links)[2])

\* C25: when an async task of locustfile.py or locustfile-prod.py has ended,
\* one 'async_job' event has been fired for it and the status
\* wait_for_job_completion polled to is terminal.
C25_TasksPollToCompletion ==
  (task \in LocustfileTasks /\ pc = "done") =>
    /\ Len(events) = 1
    /\ status # None
    /\ status[1] \in ServerTerminal

\* C26: when a call of process_item has ended, returning or raising, the
\* directory it created and everything in it is gone and no other path is.
\* With an item whose clone() returns a copy, as a pystac.Item does, the
\* item it was given is as it was, and if the call returned, the result is
\* another object with the id of the item and exactly one asset, 'data', the
\* staged file with the role 'data'.  (An argument whose clone() returns the
\* argument itself is no clone: line 43 empties its assets and line 49
\* raises StopIteration; the directory is removed all the same.)
C26_WorkdirRemoved ==
  a_pc = "done" =>
    /\ workdir # None
    /\ \A p \in fs : p[1] # workdir[1]
    /\ fs = a_in.fs
    /\ a_in.clone = "copy" =>
         /\ objects[item] = a_in.item
         /\ a_exc = "None" =>
              /\ result[1] # item
              /\ objects[result[1]].id = a_in.item.id
              /\ Len(objects[result[1]].assets) = 1
              /\ objects[result[1]].assets[1].key = "data"
              /\ objects[result[1]].assets[1].roles = <<<<"data">>>>
              /\ \E i \in 1..Len(a_in.item.assets) :
                   /\ has_data_role(a_in.item.assets[i])
                   /\ objects[result[1]].assets[1].href =
                        <<"staged">> \o a_in.item.assets[i].href
    /\ a_in.clone = "self" =>
         /\ result[1] = item
         /\ objects[item].assets = <<>>
         /\ a_exc = "StopIteration"

C26_Witness ==
  /\ a_pc = "done"
  /\ a_in.clone = "copy"
  /\ a_exc = "None"
  /\ workdir = <<"tmp2">>
  /\ fs = {<<"tmp1">>, <<"tmp1", "tmp.txt">>}
  /\ Len(objects[item].assets) = 2
  /\ objects[item].assets[1].key = "data"
  /\ ~has_data_role(objects[item].assets[1])
  /\ Len(objects[result[1]].assets) = 1

====
